---- MODULE Spec2Model ----
\* Review-coordination engine of backloop: the ReviewManager's cross-context
\* comment queue, per-review pending counts and approval flags, the
\* await_comments consumer, and the HTTP / tool handlers that drive them;
\* GitService's diff parser and merge; the event log and its subscribers.
EXTENDS Integers, Sequences, FiniteSets, TLC

\* ---------------------------------------------------------------- bounds
MaxReviews == 2
MaxComments == 2
MaxApproveCalls == 2
MaxResolveCalls == 1
MaxDeleteCalls == 1
MaxRemoveCalls == 1
MaxFiles == 2
MaxBodyLines == 2
MaxMergeFiles == 2
MaxHandlers == 2
MaxLastEventId == 2
MaxTicks == 4
MaxFileEvents == 3

ReviewIds == 1..MaxReviews
CommentIds == 1..MaxComments

\* CommentStatus values of a stored comment.
QUEUED == "queued"
IN_PROGRESS == "in_progress"
RESOLVED == "resolved"

VARIABLES
    active_reviews,          \* ReviewManager.active_reviews: ids of the registered sessions
    created,                 \* number of ReviewSession objects constructed so far (ids are fresh)
    comments,                \* comments[r]: the CommentService._comments dict of session r
    submitted,               \* submitted[c]: review the c-th created comment was submitted to
    pending_comments,        \* ReviewManager._pending_comments (asyncio.Queue), <<review, comment>>
    pending_comment_counts,  \* ReviewManager._pending_comment_counts (dict review -> count)
    review_approved,         \* ReviewManager._review_approved: keys in dict insertion order
    event_loop,              \* ReviewManager._event_loop is set (the manager was built with a loop)
    ready,                   \* enqueue callbacks scheduled on the loop by call_soon_threadsafe
    events,                  \* EventManager log
    pc,                      \* position of the agent's await_comments call
    delivered,               \* comments returned by await_comments, in return order
    lastOp,                  \* the operation that just completed, with its outcome
    persisted,               \* persisted[r]: what the storage file of session r holds
    saving,                  \* saving[ctx]: the data a _save_comments call is about to write
    enqueuing,               \* the enqueue() call a request thread is inside, when there is no loop
    comment_event,           \* reviewer.ReviewManager._comment_event is set (batch coordinator)
    diff_output,             \* the text handed to GitService._parse_diff_output
    parse_result,            \* what _parse_diff_output returned, once it has
    main_files,              \* first argument of GitService._merge_diff_files
    additional_files,        \* second argument of GitService._merge_diff_files
    merge_result,            \* what _merge_diff_files returned, once it has
    subscribers,             \* EventManager's subscriber table: subscriber id -> last_event_id
    handlers,                \* the /api/events and websocket handlers in flight or finished
    now,                     \* time.time(), in quarters of a second
    last_event_times,        \* _last_event_times of each handler the observer has scheduled
    scheduled,               \* emit_event coroutines the watcher thread handed to the loop
    observer,                \* FileWatcher.observer is not None
    watch_handles,           \* FileWatcher.watch_handles: the directories with a handle
    is_watching,             \* FileWatcher._is_watching
    last_notified            \* record of the latest notification per path, where one is kept

managerVars == <<active_reviews, created, comments, submitted, pending_comments,
                 pending_comment_counts, review_approved, event_loop,
                 comment_event, enqueuing, ready, events,
                 pc, delivered, lastOp, persisted, saving>>

diffVars == <<diff_output, parse_result, main_files, additional_files, merge_result>>

hubVars == <<subscribers, handlers>>

watchVars == <<now, last_event_times, scheduled, observer, watch_handles, is_watching,
               last_notified>>

vars == <<managerVars, diffVars, hubVars, watchVars>>

\* ------------------------------------------------------------- helpers
Range(s) == {s[i] : i \in 1..Len(s)}

NoOp ==
    [op |-> "init", review |-> 0, comment |-> 0, result |-> "none", prev |-> "none",
     queue_position |-> 0, tool |-> "none", calls |-> <<>>]

Op(o, r, c, res, p) ==
    [op |-> o, review |-> r, comment |-> c, result |-> res, prev |-> p, queue_position |-> 0,
     tool |-> "none", calls |-> <<>>]

\* the class of the object ReviewManager.await_comments returns
ResultClass(result) == IF result = "approved" THEN "ReviewApproved" ELSE "PendingComment"

\* the await_comments tool of the MCP server: its answer for a result of class cls
await_comments_tool(cls) ==
    IF cls = "ReviewApproved"
    THEN "REVIEW APPROVED"
    ELSE IF cls = "Comment" THEN "comment details" ELSE "UNKNOWN RESULT"

\* an await_comments call that returned, with the tool's answer
Returned(r, c, res, p) ==
    [Op("await", r, c, res, p) EXCEPT !.tool = await_comments_tool(ResultClass(res))]

EmptyStore == [c \in {} |-> QUEUED]

\* the two execution contexts: the web server's thread and the agent's loop
Contexts == {"request", "consumer"}

\* the queue_position add returns: the comments of the store that are Queued,
\* the new one included
QueuePosition(store) == Cardinality({c \in DOMAIN store : store[c] = QUEUED})

\* CommentService._save_comments of session r: the file gets the full comment set
_save_comments(files, r, store) == [files EXCEPT ![r] = store]

\* dict.get(review_id, 0) on _pending_comment_counts
CountGet(counts, r) == IF r \in DOMAIN counts THEN counts[r] ELSE 0

\* dict[key] = value
DictSet(d, k, v) == [x \in (DOMAIN d) \cup {k} |-> IF x = k THEN v ELSE d[x]]

\* dict.pop(key, None) / del dict[key]
DictDel(d, k) == [x \in (DOMAIN d) \ {k} |-> d[x]]

\* number of events of one type in the log
CountType(log, t) == Cardinality({i \in 1..Len(log) : log[i].type = t})

\* EventManager.emit_event: append an event with the next id to the log
EmitEvent(log, t, r, c, d) ==
    Append(log, [id |-> Len(log) + 1, type |-> t, review |-> r, comment |-> c, data |-> d])

\* put_nowait at the head of the queue
QueuePutFront(q, item) == <<item>> \o q

\* asyncio.Queue.put_nowait
QueuePut(q, item) == Append(q, item)

\* a get that leaves the head in place
QueueRestKeep(q) == q

\* asyncio.Queue.get hands out the head; this is the queue left behind
QueueRest(q) == Tail(q)

\* an assignment that flips the flag of an already approved review
SetApprovedToggle(flags, r) ==
    IF r \in Range(flags) THEN SelectSeq(flags, LAMBDA x : x # r) ELSE Append(flags, r)

\* self._review_approved[review_id] = True (a dict keeps a key's first position)
SetApproved(flags, r) == IF r \in Range(flags) THEN flags ELSE Append(flags, r)

\* the enqueue() closure of add_comment_to_queue
Enqueue(r, c) ==
    /\ pending_comment_counts' =
          DictSet(pending_comment_counts, r, CountGet(pending_comment_counts, r) + 1)
    /\ pending_comments' = QueuePut(pending_comments, <<r, c>>)

\* the approved reviews, whatever their pending count
ApprovedDoneAnyCount == review_approved

\* the approved reviews with no pending comment, in the order the loop visits them
ApprovedDone ==
    SelectSeq(review_approved, LAMBDA r : CountGet(pending_comment_counts, r) = 0)

\* CommentService.update_comment_status: a direct transition, no check beyond existence
UpdateCommentStatus(store, c, s) ==
    IF c \in DOMAIN store THEN [store EXCEPT ![c] = s] ELSE store

\* the status await_comments finds for a comment it dequeued
StatusSeen(r, c) ==
    IF r \notin active_reviews THEN "no_review"
    ELSE IF c \notin DOMAIN comments[r] THEN "absent"
    ELSE comments[r][c]

\* await_comments: one less comment is pending for this review
DecrementCount(counts, r) ==
    IF CountGet(counts, r) <= 1 THEN DictDel(counts, r)
    ELSE DictSet(counts, r, CountGet(counts, r) - 1)

\* number of comments deleted so far
Deleted ==
    Cardinality({c \in 1..Len(submitted) : c \notin DOMAIN comments[submitted[c]]})

\* the comments submitted to review r so far
SubmittedTo(r) == {c \in 1..Len(submitted) : submitted[c] = r}

\* ---------------------------------------------------------------- Init
\* no diff is being parsed or merged
DiffIdle ==
    /\ diff_output = <<>>
    /\ parse_result = <<>>
    /\ main_files = <<>>
    /\ additional_files = <<>>
    /\ merge_result = <<>>

\* EventManager() with no subscriber yet
HubInit ==
    /\ subscribers = [s \in {} |-> 0]
    /\ handlers = <<>>

\* _debounce_time = 0.5, in quarters of a second
DebounceTicks == 2

\* the clock's first reading; time.time() is far above the debounce window
StartTime == 2

\* the directories start_watching is called with
Dirs == {"cwd", "lib"}

\* _last_event_times of a new ReviewFileSystemEventHandler
EmptyTimes == [p \in {} |-> 0]

\* a FileWatcher whose start_watching(cwd) established the watch
WatchStarted ==
    /\ now = StartTime
    /\ last_event_times = <<EmptyTimes>>
    /\ scheduled = <<>>
    /\ observer = TRUE
    /\ watch_handles = {"cwd"}
    /\ is_watching = TRUE
    /\ last_notified = EmptyTimes

\* a FileWatcher whose start_watching(cwd) could not establish the watch
WatchFailed ==
    /\ now = StartTime
    /\ last_event_times = <<>>
    /\ scheduled = <<>>
    /\ observer = TRUE
    /\ watch_handles = {}
    /\ is_watching = FALSE
    /\ last_notified = EmptyTimes

\* no FileWatcher: the manager was built without a loop
WatchNone ==
    /\ now = StartTime
    /\ last_event_times = <<>>
    /\ scheduled = <<>>
    /\ observer = FALSE
    /\ watch_handles = {}
    /\ is_watching = FALSE
    /\ last_notified = EmptyTimes

\* ReviewManager.__init__ starts the watcher when it is given a loop
WatchInit == IF event_loop THEN WatchStarted ELSE WatchNone

\* ReviewManager.__init__
ManagerInit ==
    /\ active_reviews = {}
    /\ created = 0
    /\ comments = [r \in ReviewIds |-> EmptyStore]
    /\ submitted = <<>>
    /\ pending_comments = <<>>
    /\ pending_comment_counts = [r \in {} |-> 0]
    /\ review_approved = <<>>
    /\ event_loop \in BOOLEAN
    /\ ready = <<>>
    /\ events = <<>>
    /\ pc = "idle"
    /\ delivered = <<>>
    /\ lastOp = NoOp
    /\ persisted = [r \in ReviewIds |-> EmptyStore]
    /\ saving = [ctx \in Contexts |-> <<>>]
    /\ enqueuing = <<>>
    /\ comment_event = FALSE

Init == ManagerInit /\ DiffIdle /\ HubInit /\ WatchInit

\* -------------------------------------------------------------- actions
\* create_review_session, registering whatever the selectors are
create_review_session_registers(commit, range, since) ==
    /\ created < MaxReviews
    /\ created' = created + 1
    /\ active_reviews' = active_reviews \cup {created + 1}
    /\ lastOp' = Op("create", created + 1, 0, "ok", "none")
    /\ UNCHANGED <<comments, submitted, pending_comments, pending_comment_counts,
                   review_approved, event_loop,
                   comment_event, enqueuing, ready, events, pc, delivered,
                   persisted, saving, diffVars, hubVars, watchVars>>

\* ReviewSession.__init__ + ReviewManager.create_review_session: with more than
\* one selector _get_diff raises and nothing is registered.
create_review_session(commit, range, since) ==
    /\ created < MaxReviews
    /\ LET n == (IF commit THEN 1 ELSE 0) + (IF range THEN 1 ELSE 0) + (IF since THEN 1 ELSE 0)
       IN IF n > 1
          THEN /\ lastOp' = Op("create", 0, 0, "ValueError", "none")
               /\ UNCHANGED <<active_reviews, created>>
          ELSE /\ created' = created + 1
               /\ active_reviews' = active_reviews \cup {created + 1}
               /\ lastOp' = Op("create", created + 1, 0, "ok", "none")
    /\ UNCHANGED <<comments, submitted, pending_comments, pending_comment_counts,
                   review_approved, event_loop,
                   comment_event, enqueuing, ready, events, pc, delivered,
                   persisted, saving, diffVars, hubVars, watchVars>>

\* a removal that also drops the review's queue entries, count and approval flag
remove_review_session_purges(r) ==
    /\ IF r \notin active_reviews
       THEN /\ lastOp' = Op("remove", 0, 0, "false", "none")
            /\ UNCHANGED <<active_reviews, pending_comments, pending_comment_counts,
                           review_approved>>
       ELSE /\ created - Cardinality(active_reviews) < MaxRemoveCalls
            /\ active_reviews' = active_reviews \ {r}
            /\ pending_comments' = SelectSeq(pending_comments, LAMBDA e : e[1] # r)
            /\ pending_comment_counts' =
                  IF r \in DOMAIN pending_comment_counts
                  THEN DictDel(pending_comment_counts, r)
                  ELSE pending_comment_counts
            /\ review_approved' = SelectSeq(review_approved, LAMBDA x : x # r)
            /\ lastOp' = Op("remove", r, 0, "true", "none")
    /\ UNCHANGED <<created, comments, submitted, event_loop, comment_event, enqueuing, ready,
                   events, pc, delivered,
                   persisted, saving, diffVars, hubVars, watchVars>>

\* ReviewManager.remove_review_session
remove_review_session(r) ==
    /\ IF r \notin active_reviews
       THEN /\ lastOp' = Op("remove", 0, 0, "false", "none")
            /\ UNCHANGED active_reviews
       ELSE /\ created - Cardinality(active_reviews) < MaxRemoveCalls
            /\ active_reviews' = active_reviews \ {r}
            /\ lastOp' = Op("remove", r, 0, "true", "none")
    /\ UNCHANGED <<created, comments, submitted, pending_comments,
                   pending_comment_counts, review_approved, event_loop,
                   comment_event, enqueuing, ready,
                   events, pc, delivered,
                   persisted, saving, diffVars, hubVars, watchVars>>

\* POST /review/{review_id}/api/comments: CommentService.add_comment, then
\* add_comment_to_queue, which runs enqueue() at once or schedules it on the loop.
create_review_comment(r) ==
    IF r \notin active_reviews
    THEN /\ lastOp' = Op("submit", 0, 0, "NotFound", "none")
         /\ UNCHANGED <<active_reviews, created, comments, submitted, pending_comments,
                        pending_comment_counts, review_approved, event_loop,
                        comment_event, enqueuing, ready,
                        events, pc, delivered,
                        persisted, saving, diffVars, hubVars, watchVars>>
    ELSE /\ Len(submitted) < MaxComments
         /\ LET c == Len(submitted) + 1
            IN /\ comments' = [comments EXCEPT ![r] = DictSet(@, c, QUEUED)]
               /\ persisted' = _save_comments(persisted, r, comments'[r])
               /\ submitted' = Append(submitted, r)
               /\ IF event_loop
                  THEN /\ ready' = Append(ready, <<r, c>>)
                       /\ UNCHANGED <<pending_comments, pending_comment_counts>>
                  ELSE /\ Enqueue(r, c)
                       /\ UNCHANGED ready
               /\ lastOp' = [Op("submit", r, c, "ok", "none") EXCEPT
                               !.queue_position = QueuePosition(comments'[r])]
         /\ UNCHANGED <<active_reviews, created, review_approved, event_loop,
                        comment_event, enqueuing, events,
                        pc, delivered,
                        saving, diffVars, hubVars, watchVars>>

\* the loop runs the oldest scheduled enqueue() callback
run_enqueue ==
    /\ ready # <<>>
    /\ Enqueue(Head(ready)[1], Head(ready)[2])
    /\ ready' = Tail(ready)
    /\ lastOp' = Op("enqueue", 0, 0, "none", "none")
    /\ UNCHANGED <<active_reviews, created, comments, submitted, review_approved,
                   event_loop, comment_event, enqueuing, events, pc, delivered,
                   persisted, saving, diffVars, hubVars, watchVars>>

\* a delete that also takes the comment out of the queue and the count
delete_review_comment_dequeues(r, c) ==
    /\ IF r \notin active_reviews
       THEN /\ lastOp' = Op("delete", 0, 0, "NotFound", "none")
            /\ UNCHANGED <<comments, persisted, pending_comments, pending_comment_counts>>
       ELSE IF c \notin DOMAIN comments[r]
       THEN /\ lastOp' = Op("delete", 0, 0, "NotFound", "none")
            /\ UNCHANGED <<comments, persisted, pending_comments, pending_comment_counts>>
       ELSE /\ Deleted < MaxDeleteCalls
            /\ comments' = [comments EXCEPT ![r] = DictDel(@, c)]
            /\ persisted' = _save_comments(persisted, r, comments'[r])
            /\ pending_comments' = SelectSeq(pending_comments, LAMBDA e : e[2] # c)
            /\ pending_comment_counts' =
                  IF \E i \in 1..Len(pending_comments) : pending_comments[i][2] = c
                  THEN DecrementCount(pending_comment_counts, r)
                  ELSE pending_comment_counts
            /\ lastOp' = Op("delete", r, c, "ok", comments[r][c])
    /\ UNCHANGED <<active_reviews, created, submitted,
                   review_approved, event_loop, comment_event, enqueuing, ready,
                   events, pc, delivered,
                   saving, diffVars, hubVars, watchVars>>

\* DELETE /review/{review_id}/api/comments/{comment_id}
delete_review_comment(r, c) ==
    /\ IF r \notin active_reviews
       THEN /\ lastOp' = Op("delete", 0, 0, "NotFound", "none")
            /\ UNCHANGED <<comments, persisted>>
       ELSE IF c \notin DOMAIN comments[r]
       THEN /\ lastOp' = Op("delete", 0, 0, "NotFound", "none")
            /\ UNCHANGED <<comments, persisted>>
       ELSE /\ Deleted < MaxDeleteCalls
            /\ comments' = [comments EXCEPT ![r] = DictDel(@, c)]
            /\ persisted' = _save_comments(persisted, r, comments'[r])
            /\ lastOp' = Op("delete", r, c, "ok", comments[r][c])
    /\ UNCHANGED <<active_reviews, created, submitted, pending_comments,
                   pending_comment_counts, review_approved, event_loop,
                   comment_event, enqueuing, ready,
                   events, pc, delivered,
                   saving, diffVars, hubVars, watchVars>>

\* approve_review without the session lookup
approve_review_unchecked(r, valid) ==
    /\ CountType(events, "review_approved") < MaxApproveCalls
    /\ review_approved' = SetApproved(review_approved, r)
    /\ events' = EmitEvent(events, "review_approved", r, 0, Len(submitted))
    /\ lastOp' = Op("approve", r, 0, "ok", "none")
    /\ UNCHANGED <<active_reviews, created, comments, submitted, pending_comments,
                   pending_comment_counts, event_loop,
                   comment_event, enqueuing, ready, pc, delivered,
                   persisted, saving, diffVars, hubVars, watchVars>>

\* POST /review/{review_id}/approve; valid: the request's timestamp parses
approve_review(r, valid) ==
    IF r \notin active_reviews
    THEN /\ lastOp' = Op("approve", 0, 0, "NotFound", "none")
         /\ UNCHANGED <<active_reviews, created, comments, submitted, pending_comments,
                        pending_comment_counts, review_approved, event_loop,
                        comment_event, enqueuing, ready,
                        events, pc, delivered,
                        persisted, saving, diffVars, hubVars, watchVars>>
    ELSE IF ~valid
    THEN /\ lastOp' = Op("approve", 0, 0, "Error500", "none")
         /\ UNCHANGED <<active_reviews, created, comments, submitted, pending_comments,
                        pending_comment_counts, review_approved, event_loop,
                        comment_event, enqueuing, ready,
                        events, pc, delivered,
                        persisted, saving, diffVars, hubVars, watchVars>>
    ELSE /\ CountType(events, "review_approved") < MaxApproveCalls
         /\ review_approved' = SetApproved(review_approved, r)
         /\ events' = EmitEvent(events, "review_approved", r, 0, Len(submitted))
         /\ lastOp' = Op("approve", r, 0, "ok", "none")
         /\ UNCHANGED <<active_reviews, created, comments, submitted, pending_comments,
                        pending_comment_counts, event_loop,
                        comment_event, enqueuing, ready, pc, delivered,
                        persisted, saving, diffVars, hubVars, watchVars>>

\* resolve_comment publishing CommentResolved whether or not the id was found
resolve_comment_always_emits(c) ==
    /\ CountType(events, "comment_resolved") < MaxResolveCalls
    /\ LET holders == {r \in active_reviews : c \in DOMAIN comments[r]}
       IN IF holders = {}
          THEN /\ lastOp' = Op("resolve", 0, 0, "not_found", "none")
               /\ events' = EmitEvent(events, "comment_resolved", 0, c, 0)
               /\ UNCHANGED <<comments, persisted>>
          ELSE LET r == CHOOSE x \in holders : TRUE
               IN /\ comments' = [comments EXCEPT ![r] = UpdateCommentStatus(@, c, RESOLVED)]
                  /\ persisted' = _save_comments(persisted, r, comments'[r])
                  /\ events' = EmitEvent(events, "comment_resolved", r, c, 0)
                  /\ lastOp' = Op("resolve", r, c, "resolved", comments[r][c])
    /\ UNCHANGED <<active_reviews, created, submitted, pending_comments,
                   pending_comment_counts, review_approved, event_loop,
                   comment_event, enqueuing, ready,
                   pc, delivered,
                   saving, diffVars, hubVars, watchVars>>

\* the resolve_comment tool: the first active review holding the id is updated
resolve_comment(c) ==
    /\ CountType(events, "comment_resolved") < MaxResolveCalls
    /\ LET holders == {r \in active_reviews : c \in DOMAIN comments[r]}
       IN IF holders = {}
          THEN /\ lastOp' = Op("resolve", 0, 0, "not_found", "none")
               /\ UNCHANGED <<comments, persisted, events>>
          ELSE LET r == CHOOSE x \in holders : TRUE
               IN /\ comments' = [comments EXCEPT ![r] = UpdateCommentStatus(@, c, RESOLVED)]
                  /\ persisted' = _save_comments(persisted, r, comments'[r])
                  /\ events' = EmitEvent(events, "comment_resolved", r, c, 0)
                  /\ lastOp' = Op("resolve", r, c, "resolved", comments[r][c])
    /\ UNCHANGED <<active_reviews, created, submitted, pending_comments,
                   pending_comment_counts, review_approved, event_loop,
                   comment_event, enqueuing, ready,
                   pc, delivered,
                   saving, diffVars, hubVars, watchVars>>

\* the agent calls await_comments
await_comments_call ==
    /\ pc = "idle"
    /\ pc' = "check"
    /\ lastOp' = Op("await_call", 0, 0, "none", "none")
    /\ UNCHANGED <<active_reviews, created, comments, submitted, pending_comments,
                   pending_comment_counts, review_approved, event_loop,
                   comment_event, enqueuing, ready,
                   events, delivered,
                   persisted, saving, diffVars, hubVars, watchVars>>

\* await_comments, top of the loop: an approved review with no pending comment
\* ends the call, otherwise the call waits on the queue
await_comments_check ==
    /\ pc = "check"
    /\ IF ApprovedDone # <<>>
       THEN /\ pc' = "idle"
            /\ lastOp' = Returned(Head(ApprovedDone), 0, "approved", "none")
       ELSE /\ pc' = "wait"
            /\ lastOp' = Op("await_wait", 0, 0, "none", "none")
    /\ UNCHANGED <<active_reviews, created, comments, submitted, pending_comments,
                   pending_comment_counts, review_approved, event_loop,
                   comment_event, enqueuing, ready,
                   events, delivered,
                   persisted, saving, diffVars, hubVars, watchVars>>

\* await_comments: the queue hands out a comment; the count is decremented, the
\* status set when the session is still registered, CommentDequeued is emitted
\* with the review's remaining count, and the comment is returned
await_comments_get ==
    /\ pc = "wait"
    /\ pending_comments # <<>>
    /\ LET r == Head(pending_comments)[1]
           c == Head(pending_comments)[2]
           counts == DecrementCount(pending_comment_counts, r)
       IN /\ pending_comments' = QueueRest(pending_comments)
          /\ pending_comment_counts' = counts
          /\ comments' = IF r \in active_reviews
                         THEN [comments EXCEPT ![r] = UpdateCommentStatus(@, c, IN_PROGRESS)]
                         ELSE comments
          /\ persisted' = IF r \in active_reviews /\ c \in DOMAIN comments[r]
                          THEN _save_comments(persisted, r, comments'[r])
                          ELSE persisted
          /\ events' = EmitEvent(events, "comment_dequeued", r, c, CountGet(counts, r))
          /\ delivered' = Append(delivered, c)
          /\ lastOp' = Returned(r, c, "comment", StatusSeen(r, c))
    /\ pc' = "idle"
    /\ UNCHANGED <<active_reviews, created, submitted, review_approved, event_loop,
                   comment_event, enqueuing,
                   ready,
                   saving, diffVars, hubVars, watchVars>>

\* await_comments_timeout, returning to the caller instead of looping
await_comments_timeout_returns ==
    /\ pc = "wait"
    /\ pending_comments = <<>>
    /\ pc' = "idle"
    /\ lastOp' = Op("await", 0, 0, "timeout", "none")
    /\ UNCHANGED <<active_reviews, created, comments, submitted, pending_comments,
                   pending_comment_counts, review_approved, event_loop,
                   comment_event, enqueuing, ready,
                   events, delivered,
                   persisted, saving, diffVars, hubVars, watchVars>>

\* await_comments: the 1 s wait on the empty queue times out, back to the check
\* (a get on a non-empty queue completes, so only an empty queue times out)
await_comments_timeout ==
    /\ pc = "wait"
    /\ pending_comments = <<>>
    /\ pc' = "check"
    /\ lastOp' = Op("await_timeout", 0, 0, "none", "none")
    /\ UNCHANGED <<active_reviews, created, comments, submitted, pending_comments,
                   pending_comment_counts, review_approved, event_loop,
                   comment_event, enqueuing, ready,
                   events, delivered,
                   persisted, saving, diffVars, hubVars, watchVars>>

Next ==
    \/ \E commit \in BOOLEAN, range \in BOOLEAN, since \in BOOLEAN :
          create_review_session(commit, range, since)
    \/ \E r \in ReviewIds : remove_review_session(r)
    \/ \E r \in ReviewIds : create_review_comment(r)
    \/ run_enqueue
    \/ \E r \in ReviewIds, c \in CommentIds : delete_review_comment(r, c)
    \/ \E r \in ReviewIds, valid \in BOOLEAN : approve_review(r, valid)
    \/ \E c \in CommentIds : resolve_comment(c)
    \/ await_comments_call
    \/ await_comments_check
    \/ await_comments_get
    \/ await_comments_timeout

Spec == Init /\ [][Next]_vars

\* The agent keeps calling await_comments and the loop keeps running its
\* callbacks; the reviewer's requests are under no obligation.
NextFair ==
    \/ \E commit \in BOOLEAN, range \in BOOLEAN, since \in BOOLEAN :
          create_review_session(commit, range, since)
    \/ \E r \in ReviewIds : create_review_comment(r)
    \/ run_enqueue
    \/ \E r \in ReviewIds, valid \in BOOLEAN : approve_review(r, valid)
    \/ await_comments_call
    \/ await_comments_check
    \/ await_comments_get
    \/ await_comments_timeout

FairSpec ==
    /\ Init
    /\ [][NextFair]_vars
    /\ WF_vars(run_enqueue)
    /\ WF_vars(await_comments_call)
    /\ WF_vars(await_comments_check)
    /\ WF_vars(await_comments_get)
    /\ WF_vars(await_comments_timeout)

\* ------------------------------------------------------- GET /api/diff
\* Python's None as the value of an absent query parameter
Unset == "<None>"

\* what a str | None query parameter can hold: absent, empty (?commit=), a ref
QueryValues == {Unset, "", "HEAD"}

\* truth value of a str | None
Truthy(x) == x \notin {Unset, ""}

\* ReviewSession._get_diff: the GitService call it makes, or the error it raises
_get_diff(commit, range, since) ==
    LET params == <<commit, range, since>>
        param_count == Cardinality({i \in 1..3 : params[i] # Unset})
    IN  IF param_count = 0 THEN "get_live_diff"
        ELSE IF param_count > 1 THEN "ValueError"
        ELSE IF Truthy(commit) THEN "get_commit_diff"
        ELSE IF Truthy(range) THEN "get_range_diff"
        ELSE IF since # Unset THEN "get_live_diff"
        ELSE "AssertionError"

\* the outcome of a get_diff request and the calls it made
DiffOutcome(res, made) == [Op("get_diff", 0, 0, res, "none") EXCEPT !.calls = made]

\* GET /api/diff (api/router.py get_diff): the session it builds is not registered
get_diff(commit, range, mock) ==
    /\ lastOp' =
          IF mock
          THEN DiffOutcome("diff", <<"get_mock_diff">>)
          ELSE IF ~Truthy(commit) /\ ~Truthy(range)
          THEN DiffOutcome("400", <<>>)
          ELSE IF Truthy(commit) /\ Truthy(range)
          THEN DiffOutcome("400", <<>>)
          ELSE LET call == _get_diff(commit, range, Unset)
               IN  IF call \in {"ValueError", "AssertionError"}
                   THEN DiffOutcome(call, <<"ReviewSession", "_get_diff">>)
                   ELSE DiffOutcome("diff", <<"ReviewSession", "_get_diff", call>>)
    /\ UNCHANGED <<active_reviews, created, comments, submitted, pending_comments,
                   pending_comment_counts, review_approved, event_loop,
                   comment_event, enqueuing, ready, events,
                   pc, delivered, persisted, saving, diffVars, hubVars, watchVars>>

\* the web API's diff endpoint next to the review protocol
ApiNext ==
    \/ NextFair
    \/ \E commit \in QueryValues, range \in QueryValues, mock \in BOOLEAN :
          get_diff(commit, range, mock)

ApiSpec == Init /\ [][ApiNext]_vars

\* ------------------------------------------------------------ diff text
Paths == {"x", "y"}

\* an absent group or line number
None == -1

NoPath == "None"

\* LineType
ADDITION == "addition"
DELETION == "deletion"
CONTEXT == "context"

RECURSIVE Flatten(_)
Flatten(ss) == IF ss = <<>> THEN <<>> ELSE Head(ss) \o Flatten(Tail(ss))

\* a line of diff text: first is what startswith() sees, match whether the header
\* pattern matches, old_path / path / nums are the pattern's groups, role is what
\* the line is in git's output
DiffTextLine(first, role, match, old, new, nums) ==
    [first |-> first, role |-> role, match |-> match, old_path |-> old,
     path |-> new, nums |-> nums]

\* a line the parser has no branch for
Other(role) == DiffTextLine("other", role, FALSE, NoPath, NoPath, <<None, None, None, None>>)

\* a binary or rename marker line
Marker(first) == DiffTextLine(first, first, FALSE, NoPath, NoPath, <<None, None, None, None>>)

\* a context, deletion or addition line of a hunk
BodyLine(first) ==
    DiffTextLine(first, IF first = " " THEN CONTEXT ELSE IF first = "-" THEN DELETION ELSE ADDITION,
                 FALSE, NoPath, NoPath, <<None, None, None, None>>)

\* the body lines with one of the given first characters
CountOf(body, firsts) == Cardinality({i \in 1..Len(body) : body[i] \in firsts})

\* "@@ -a,b +c,d @@": git leaves a count of 1 out, and writes the line before an
\* empty side as its start
HunkLines(hunk, h) ==
    LET old_lines == CountOf(hunk.body, {" ", "-"})
        new_lines == CountOf(hunk.body, {" ", "+"})
        old_start == 10 * (h - 1) + (IF old_lines = 0 THEN 0 ELSE 1)
        new_start == 11 * (h - 1) + (IF new_lines = 0 THEN 0 ELSE 1)
        header == DiffTextLine("@@", "chunk_header", ~hunk.bad, NoPath, NoPath,
                      <<old_start, IF old_lines = 1 THEN None ELSE old_lines,
                        new_start, IF new_lines = 1 THEN None ELSE new_lines>>)
    IN <<header>> \o [i \in 1..Len(hunk.body) |-> BodyLine(hunk.body[i])]

\* one file section: header, rename or binary markers, and for a section with
\* hunks the index, --- and +++ lines and the hunks
SectionLines(sec) ==
    <<DiffTextLine("diff --git", "file_header", sec.kind # "bad",
                   IF sec.kind = "rename" THEN "w" ELSE sec.path, sec.path,
                   <<None, None, None, None>>)>>
    \o (IF sec.kind = "rename" THEN <<Marker("similarity index"), Marker("rename from"), Other("rename to")>>
        ELSE <<>>)
    \o (IF sec.kind = "binary" THEN <<Other("index"), Marker("Binary files")>> ELSE <<>>)
    \o (IF sec.hunks # <<>>
        THEN <<Other("index"),
               DiffTextLine("-", "old_name", FALSE, NoPath, NoPath, <<None, None, None, None>>),
               DiffTextLine("+", "new_name", FALSE, NoPath, NoPath, <<None, None, None, None>>)>>
             \o Flatten([h \in 1..Len(sec.hunks) |-> HunkLines(sec.hunks[h], h)])
        ELSE <<>>)

\* hunk bodies of n lines
Bodies(n) == [1..n -> {" ", "-", "+"}]

RECURSIVE HunkSeqs(_)
\* the hunk lists with exactly n body lines in all
HunkSeqs(n) ==
    IF n = 0 THEN {<<>>}
    ELSE UNION {{<<[body |-> b, bad |-> bad]>> \o rest :
                    b \in Bodies(k), bad \in BOOLEAN, rest \in HunkSeqs(n - k)} : k \in 1..n}

\* the file sections with n body lines; a binary section has no hunk
Sections(n) ==
    {[path |-> p, kind |-> k, hunks |-> hs] :
        p \in Paths, k \in {"text", "rename", "bad"}, hs \in HunkSeqs(n)}
    \cup (IF n = 0 THEN {[path |-> p, kind |-> "binary", hunks |-> <<>>] : p \in Paths} ELSE {})

RECURSIVE SectionSeqs(_, _)
\* the lists of nfiles sections with at most budget body lines in all
SectionSeqs(nfiles, budget) ==
    IF nfiles = 0 THEN {<<>>}
    ELSE UNION {{<<s>> \o rest : s \in Sections(k), rest \in SectionSeqs(nfiles - 1, budget - k)} :
                   k \in 0..budget}

\* the diff texts of up to MaxFiles sections and MaxBodyLines body lines
DiffTexts ==
    {Flatten([i \in 1..Len(ss) |-> SectionLines(ss[i])]) :
        ss \in UNION {SectionSeqs(n, MaxBodyLines) : n \in 0..MaxFiles}}


\* ---------------------------------------------------------- diff parser
Some(x) == <<x>>

\* the dict a well-formed file header opens
NewFileData(line) ==
    [old_path |-> line.old_path, path |-> line.path, chunks |-> <<>>, additions |-> 0,
     deletions |-> 0, is_binary |-> FALSE, is_renamed |-> FALSE]

\* int(match.group(n) or 1)
GroupOr1(g) == IF g = None THEN 1 ELSE g

\* the dict a well-formed chunk header opens; current_old / current_new are the
\* running counters, read with the chunk's start as default until first set
NewChunkData(line, i) ==
    [old_start |-> line.nums[1], old_lines |-> GroupOr1(line.nums[2]),
     new_start |-> line.nums[3], new_lines |-> GroupOr1(line.nums[4]),
     lines |-> <<>>, current_old |-> line.nums[1], current_new |-> line.nums[3],
     at |-> i]

_finalize_chunk(chunk_data) ==
    [old_start |-> chunk_data.old_start, old_lines |-> chunk_data.old_lines,
     new_start |-> chunk_data.new_start, new_lines |-> chunk_data.new_lines,
     lines |-> chunk_data.lines, at |-> chunk_data.at]

_finalize_file(file_data) ==
    [path |-> file_data.path,
     old_path |-> IF file_data.old_path # file_data.path THEN file_data.old_path ELSE NoPath,
     additions |-> file_data.additions, deletions |-> file_data.deletions,
     chunks |-> file_data.chunks, is_binary |-> file_data.is_binary,
     is_renamed |-> file_data.is_renamed]

\* a context, deletion or addition line appended to the open chunk; content is
\* the line's place in the text
DiffLine(type, old_num, new_num, i) ==
    [type |-> type, old_num |-> old_num, new_num |-> new_num, content |-> i]

ContextLine(ch, i) ==
    [ch EXCEPT !.lines = Append(@, DiffLine(CONTEXT, ch.current_old, ch.current_new, i)),
               !.current_old = @ + 1, !.current_new = @ + 1]

DeletionLine(ch, i) ==
    [ch EXCEPT !.lines = Append(@, DiffLine(DELETION, ch.current_old, None, i)),
               !.current_old = @ + 1]

\* an addition that also advances the old-side counter
AdditionLineBumpsOld(ch, i) ==
    [ch EXCEPT !.lines = Append(@, DiffLine(ADDITION, None, ch.current_new, i)),
               !.current_old = @ + 1, !.current_new = @ + 1]

AdditionLine(ch, i) ==
    [ch EXCEPT !.lines = Append(@, DiffLine(ADDITION, None, ch.current_new, i)),
               !.current_new = @ + 1]

ParserStart == [files |-> <<>>, current_file |-> <<>>, current_chunk |-> <<>>]

\* one pass of the while loop, on line i of the text
ParseLine(st, line, i) ==
    IF line.first = "diff --git"
    THEN [st EXCEPT
            !.files = IF st.current_file # <<>>
                      THEN Append(@, _finalize_file(st.current_file[1])) ELSE @,
            !.current_file = IF line.match THEN Some(NewFileData(line)) ELSE @]
    ELSE IF line.first = "Binary files"
    THEN [st EXCEPT !.current_file =
            IF @ # <<>> THEN Some([@[1] EXCEPT !.is_binary = TRUE]) ELSE @]
    ELSE IF line.first \in {"similarity index", "rename from"}
    THEN [st EXCEPT !.current_file =
            IF @ # <<>> THEN Some([@[1] EXCEPT !.is_renamed = TRUE]) ELSE @]
    ELSE IF line.first = "@@"
    THEN [st EXCEPT
            !.current_file =
                IF st.current_file # <<>> /\ st.current_chunk # <<>>
                THEN Some([@[1] EXCEPT !.chunks = Append(@, _finalize_chunk(st.current_chunk[1]))])
                ELSE @,
            !.current_chunk = IF line.match THEN Some(NewChunkData(line, i)) ELSE @]
    ELSE IF st.current_chunk # <<>> /\ line.first \in {" ", "-", "+"}
    THEN IF line.first = " "
         THEN [st EXCEPT !.current_chunk = Some(ContextLine(@[1], i))]
         ELSE IF line.first = "-"
         THEN [st EXCEPT
                 !.current_chunk = Some(DeletionLine(@[1], i)),
                 !.current_file = IF @ # <<>> THEN Some([@[1] EXCEPT !.deletions = @ + 1]) ELSE @]
         ELSE [st EXCEPT
                 !.current_chunk = Some(AdditionLine(@[1], i)),
                 !.current_file = IF @ # <<>> THEN Some([@[1] EXCEPT !.additions = @ + 1]) ELSE @]
    ELSE st

RECURSIVE ParseLines(_, _, _)
ParseLines(st, lines, i) ==
    IF i > Len(lines) THEN st ELSE ParseLines(ParseLine(st, lines[i], i), lines, i + 1)

\* after the loop: the open chunk goes to the open file, the open file to the result
FinalizeLast(st) ==
    LET last_file ==
            IF st.current_chunk # <<>> /\ st.current_file # <<>>
            THEN Some([st.current_file[1] EXCEPT
                          !.chunks = Append(@, _finalize_chunk(st.current_chunk[1]))])
            ELSE st.current_file
    IN IF last_file # <<>> THEN Append(st.files, _finalize_file(last_file[1])) ELSE st.files

_parse_diff_output(text) == FinalizeLast(ParseLines(ParserStart, text, 1))


\* GitService.get_diff hands the text to the parser
parse_diff_output ==
    /\ parse_result = <<>>
    /\ parse_result' = Some(_parse_diff_output(diff_output))
    /\ lastOp' = Op("parse", 0, 0, "ok", "none")
    /\ UNCHANGED <<active_reviews, created, comments, submitted, pending_comments,
                   pending_comment_counts, review_approved, event_loop,
                   comment_event, enqueuing, ready,
                   events, pc, delivered, persisted, saving, diff_output, main_files,
                   additional_files, merge_result, hubVars, watchVars>>

ParseInit ==
    /\ ManagerInit
    /\ event_loop
    /\ diff_output \in DiffTexts
    /\ parse_result = <<>>
    /\ main_files = <<>>
    /\ additional_files = <<>>
    /\ merge_result = <<>>
    /\ HubInit
    /\ WatchInit

ParseNext == parse_diff_output

ParseSpec == ParseInit /\ [][ParseNext]_vars

\* ------------------------------------------------------------ diff merge
\* DiffFile records handed to the merge: binary files, files with one added
\* line and files with a changed line, renamed or not; tag names the record's
\* chunk
MergeFile(path, kind, renamed, tag) ==
    [path |-> path,
     old_path |-> IF renamed THEN "w" ELSE NoPath,
     additions |-> IF kind = "binary" THEN 0 ELSE IF kind = "added" THEN 1 ELSE 2,
     deletions |-> IF kind = "changed" THEN 1 ELSE 0,
     chunks |-> IF kind = "binary" THEN <<>>
                ELSE <<[old_start |-> tag, old_lines |-> 0, new_start |-> tag,
                        new_lines |-> 0, lines |-> <<>>, at |-> tag]>>,
     is_binary |-> kind = "binary",
     is_renamed |-> renamed]

FileShapes == Paths \X {"binary", "added", "changed"} \X BOOLEAN

\* the lists of up to MaxMergeFiles files; the i-th file's chunk is tagged base + i
FileLists(base) ==
    UNION {{[i \in 1..n |-> MergeFile(f[i][1], f[i][2], f[i][3], base + i)] :
               f \in [1..n -> FileShapes]} : n \in 0..MaxMergeFiles}

PathsOf(files) == {files[i].path : i \in 1..Len(files)}

\* main_files_dict = {f.path: f for f in main_files}: the last file of each path
MainFilesDict(main) ==
    [p \in PathsOf(main) |->
        main[CHOOSE i \in 1..Len(main) :
                /\ main[i].path = p
                /\ \A j \in (i + 1)..Len(main) : main[j].path # p]]

\* a or b on Optional[str]
OrPath(a, b) == IF a # NoPath THEN a ELSE b

\* the DiffFile built for a path that is in both lists
MergedFile(main_file, additional_file) ==
    [path |-> additional_file.path,
     old_path |-> OrPath(main_file.old_path, additional_file.old_path),
     additions |-> main_file.additions + additional_file.additions,
     deletions |-> main_file.deletions + additional_file.deletions,
     chunks |-> main_file.chunks \o additional_file.chunks,
     is_binary |-> main_file.is_binary \/ additional_file.is_binary,
     is_renamed |-> main_file.is_renamed \/ additional_file.is_renamed]

\* for i, f in enumerate(merged_files): the first file of that path is replaced
ReplaceFirst(merged, path, file) ==
    LET i == CHOOSE k \in 1..Len(merged) :
                /\ merged[k].path = path
                /\ \A j \in 1..(k - 1) : merged[j].path # path
    IN [merged EXCEPT ![i] = file]

RECURSIVE MergeAdditional(_, _, _, _)
\* for additional_file in additional_files, from the j-th on
MergeAdditional(merged, dict, additional, j) ==
    IF j > Len(additional) THEN merged
    ELSE LET additional_file == additional[j]
         IN MergeAdditional(
                IF additional_file.path \in DOMAIN dict
                THEN ReplaceFirst(merged, additional_file.path,
                                  MergedFile(dict[additional_file.path], additional_file))
                ELSE Append(merged, additional_file),
                dict, additional, j + 1)

_merge_diff_files(main, additional) ==
    MergeAdditional(main, MainFilesDict(main), additional, 1)

\* GitService.get_diff merges the working-directory files into the main ones
merge_diff_files ==
    /\ merge_result = <<>>
    /\ merge_result' = Some(_merge_diff_files(main_files, additional_files))
    /\ lastOp' = Op("merge", 0, 0, "ok", "none")
    /\ UNCHANGED <<active_reviews, created, comments, submitted, pending_comments,
                   pending_comment_counts, review_approved, event_loop,
                   comment_event, enqueuing, ready,
                   events, pc, delivered, persisted, saving, diff_output, parse_result,
                   main_files, additional_files, hubVars, watchVars>>

MergeInit ==
    /\ ManagerInit
    /\ event_loop
    /\ diff_output = <<>>
    /\ parse_result = <<>>
    /\ main_files \in FileLists(0)
    /\ additional_files \in FileLists(10)
    /\ merge_result = <<>>
    /\ HubInit
    /\ WatchInit

MergeNext == merge_diff_files

MergeSpec == MergeInit /\ [][MergeNext]_vars

\* ------------------------------------------------------------- event log
ManagerFrame ==
    UNCHANGED <<active_reviews, created, comments, submitted, pending_comments,
                pending_comment_counts, review_approved, event_loop,
                comment_event, enqueuing, ready, events,
                pc, delivered, lastOp, persisted, saving>>

\* id of the newest event of the log, 0 for an empty log
Tail_id(log) == IF log = <<>> THEN 0 ELSE log[Len(log)].id

\* EventManager.subscribe: the subscriber is positioned at last_event_id, or at
\* the tail of the log when none is given
SubscribeCursor(log, last_event_id) ==
    IF last_event_id = None THEN Tail_id(log) ELSE last_event_id

\* events of the log after a cursor, in log order
EventsAfter(log, cursor) == SelectSeq(log, LAMBDA e : e.id > cursor)

IdsOf(batch) == [i \in 1..Len(batch) |-> batch[i].id]

\* a wait that moves every subscriber to the highest id returned
AdvanceAllCursors(subs, s, batch) ==
    IF batch = <<>> THEN subs ELSE [x \in DOMAIN subs |-> batch[Len(batch)].id]

\* EventManager.wait_for_events advances subscriber.last_event_id to the
\* highest id returned
AdvanceCursor(subs, s, batch) ==
    IF batch = <<>> THEN subs ELSE [subs EXCEPT ![s] = batch[Len(batch)].id]

\* a handler's record: its subscriber is the handler's index
Handler(kind, r, last_event_id, at) ==
    [kind |-> kind, review |-> r, last_event_id |-> last_event_id,
     subscribed_at |-> at, state |-> "subscribed", first |-> <<>>, received |-> <<>>]

\* GET /api/events subscribing without the last_event_id it was given
get_events_subscribe_ignores_id(last_event_id) ==
    /\ Len(handlers) < MaxHandlers
    /\ handlers' = Append(handlers, Handler("poll", 0, last_event_id, Tail_id(events)))
    /\ subscribers' = DictSet(subscribers, Len(handlers) + 1, SubscribeCursor(events, None))
    /\ ManagerFrame
    /\ UNCHANGED <<diffVars, watchVars>>

\* GET /api/events: subscribe
get_events_subscribe(last_event_id) ==
    /\ Len(handlers) < MaxHandlers
    /\ handlers' = Append(handlers, Handler("poll", 0, last_event_id, Tail_id(events)))
    /\ subscribers' = DictSet(subscribers, Len(handlers) + 1,
                              SubscribeCursor(events, last_event_id))
    /\ ManagerFrame
    /\ UNCHANGED <<diffVars, watchVars>>

\* GET /api/events: wait_for_events returns the events after the cursor, or
\* nothing when the timeout ends the wait; the response is built and the
\* subscriber released
get_events_wait(h) ==
    /\ h \in 1..Len(handlers)
    /\ handlers[h].kind = "poll"
    /\ handlers[h].state = "subscribed"
    /\ LET batch == EventsAfter(events, subscribers[h])
       IN /\ handlers' = [handlers EXCEPT ![h].state = "done",
                                          ![h].first = <<IdsOf(batch)>>,
                                          ![h].received = IdsOf(batch)]
          /\ subscribers' = DictDel(AdvanceCursor(subscribers, h, batch), h)
    /\ ManagerFrame
    /\ UNCHANGED <<diffVars, watchVars>>

\* websocket /review/{review_id}/ws: an unknown review closes the connection,
\* otherwise the connection is accepted and subscribed at the tail
websocket_endpoint(r) ==
    /\ Len(handlers) < MaxHandlers
    /\ IF r \notin active_reviews
       THEN /\ handlers' = Append(handlers,
                              [Handler("ws", r, None, Tail_id(events)) EXCEPT !.state = "closed"])
            /\ UNCHANGED subscribers
       ELSE /\ handlers' = Append(handlers, Handler("ws", r, None, Tail_id(events)))
            /\ subscribers' = DictSet(subscribers, Len(handlers) + 1,
                                      SubscribeCursor(events, None))
    /\ ManagerFrame
    /\ UNCHANGED <<diffVars, watchVars>>

\* websocket: one pass of the loop, wait_for_events and send_json of each event
websocket_wait(h) ==
    /\ h \in 1..Len(handlers)
    /\ handlers[h].kind = "ws"
    /\ handlers[h].state = "subscribed"
    /\ LET batch == EventsAfter(events, subscribers[h])
       IN /\ handlers' = [handlers EXCEPT
                            ![h].first = IF @ = <<>> THEN <<IdsOf(batch)>> ELSE @,
                            ![h].received = @ \o IdsOf(batch)]
          /\ subscribers' = AdvanceCursor(subscribers, h, batch)
    /\ ManagerFrame
    /\ UNCHANGED <<diffVars, watchVars>>

\* websocket: send_json raises something other than WebSocketDisconnect after
\* sent of the batch's events went out; the finally clause unsubscribes and the
\* exception ends the handler
websocket_send_fails(h, sent) ==
    /\ h \in 1..Len(handlers)
    /\ handlers[h].kind = "ws"
    /\ handlers[h].state = "subscribed"
    /\ LET batch == EventsAfter(events, subscribers[h])
       IN /\ sent < Len(batch)
          /\ handlers' = [handlers EXCEPT
                            ![h].state = "failed",
                            ![h].first = IF @ = <<>> THEN <<IdsOf(batch)>> ELSE @,
                            ![h].received = @ \o SubSeq(IdsOf(batch), 1, sent)]
          /\ subscribers' = DictDel(AdvanceCursor(subscribers, h, batch), h)
    /\ ManagerFrame
    /\ UNCHANGED <<diffVars, watchVars>>

\* a disconnect that ends the handler past its finally clause
websocket_disconnect_leaks(h) ==
    /\ h \in 1..Len(handlers)
    /\ handlers[h].kind = "ws"
    /\ handlers[h].state = "subscribed"
    /\ handlers' = [handlers EXCEPT ![h].state = "done"]
    /\ UNCHANGED subscribers
    /\ ManagerFrame
    /\ UNCHANGED <<diffVars, watchVars>>

\* websocket: the peer disconnects, the handler unsubscribes and ends
websocket_disconnect(h) ==
    /\ h \in 1..Len(handlers)
    /\ handlers[h].kind = "ws"
    /\ handlers[h].state = "subscribed"
    /\ handlers' = [handlers EXCEPT ![h].state = "done"]
    /\ subscribers' = DictDel(subscribers, h)
    /\ ManagerFrame
    /\ UNCHANGED <<diffVars, watchVars>>

LastEventIds == {None} \cup 0..MaxLastEventId

HubNext ==
    \/ \E commit \in BOOLEAN, range \in BOOLEAN, since \in BOOLEAN :
          create_review_session(commit, range, since)
    \/ \E r \in ReviewIds, valid \in BOOLEAN : approve_review(r, valid)
    \/ \E n \in LastEventIds : get_events_subscribe(n)
    \/ \E h \in 1..MaxHandlers : get_events_wait(h)
    \/ \E r \in ReviewIds : websocket_endpoint(r)
    \/ \E h \in 1..MaxHandlers : websocket_wait(h)
    \/ \E h \in 1..MaxHandlers : websocket_disconnect(h)
    \/ \E h \in 1..MaxHandlers, sent \in 0..MaxApproveCalls : websocket_send_fails(h, sent)

HubSpec == Init /\ [][HubNext]_vars

\* ---------------------------------------------------------- file watcher
\* EventManager.emit_event of a FileChanged event
EmitFileChanged(log, file_path, timestamp) ==
    LET emitted == EmitEvent(log, "file_changed", 0, 0, timestamp)
        e == emitted[Len(emitted)]
    IN [emitted EXCEPT ![Len(emitted)] =
            [f \in (DOMAIN e) \cup {"file_path"} |->
                IF f = "file_path" THEN file_path ELSE e[f]]]

\* ReviewFileSystemEventHandler._should_emit_event, on one handler's times
_should_emit_event_no_debounce(times, file_path) == TRUE

_should_emit_event(times, file_path) ==
    ~(now - (IF file_path \in DOMAIN times THEN times[file_path] ELSE 0) < DebounceTicks)

\* the scheduled handlers that let a notification for file_path through
Emitting(file_path) ==
    {i \in 1..Len(last_event_times) : _should_emit_event(last_event_times[i], file_path)}

\* on_modified recording the time of every notification, let through or not
on_modified_restarts_window(file_path, is_directory) ==
    /\ event_loop
    /\ last_event_times # <<>>
    /\ Len(scheduled) + CountType(events, "file_changed") < MaxFileEvents
    /\ IF is_directory
       THEN UNCHANGED <<last_event_times, scheduled>>
       ELSE LET emitting == Emitting(file_path)
            IN /\ last_event_times' =
                     [i \in 1..Len(last_event_times) |->
                         DictSet(last_event_times[i], file_path, now)]
               /\ scheduled' = scheduled \o
                     [k \in 1..Cardinality(emitting) |->
                         [file_path |-> file_path, timestamp |-> now]]
    /\ UNCHANGED <<now, observer, watch_handles, is_watching>>
    /\ ManagerFrame
    /\ UNCHANGED <<diffVars, hubVars>>

\* ReviewFileSystemEventHandler.on_modified, on the observer's thread, for every
\* handler the observer has scheduled: outside the handler's debounce window the
\* time is recorded and the emit_event coroutine handed to the loop
on_modified(file_path, is_directory) ==
    /\ event_loop
    /\ last_event_times # <<>>
    /\ Len(scheduled) + CountType(events, "file_changed") < MaxFileEvents
    /\ IF is_directory
       THEN UNCHANGED <<last_event_times, scheduled>>
       ELSE LET emitting == Emitting(file_path)
            IN /\ last_event_times' =
                     [i \in 1..Len(last_event_times) |->
                         IF i \in emitting THEN DictSet(last_event_times[i], file_path, now)
                         ELSE last_event_times[i]]
               /\ scheduled' = scheduled \o
                     [k \in 1..Cardinality(emitting) |->
                         [file_path |-> file_path, timestamp |-> now]]
    /\ UNCHANGED <<now, observer, watch_handles, is_watching>>
    /\ ManagerFrame
    /\ UNCHANGED <<diffVars, hubVars>>

\* on_modified, with the notification and what it set off kept for the record
notification(file_path, is_directory) ==
    /\ on_modified(file_path, is_directory)
    /\ last_notified' =
          IF is_directory THEN last_notified
          ELSE DictSet(last_notified, file_path,
                       [time |-> now, emitted |-> Cardinality(Emitting(file_path))])

\* the loop runs the coroutine, which puts its event in place of the newest one
run_file_changed_overwrites ==
    /\ scheduled # <<>>
    /\ events' = EmitFileChanged(IF events = <<>> THEN events
                                 ELSE SubSeq(events, 1, Len(events) - 1),
                                 Head(scheduled).file_path, Head(scheduled).timestamp)
    /\ scheduled' = Tail(scheduled)
    /\ UNCHANGED <<active_reviews, created, comments, submitted, pending_comments,
                   pending_comment_counts, review_approved, event_loop,
                   comment_event, enqueuing, ready,
                   pc, delivered, lastOp, persisted, saving, now, last_event_times, observer,
                   watch_handles, is_watching, last_notified, diffVars, hubVars>>

\* the loop runs the oldest coroutine the watcher handed over
run_file_changed ==
    /\ scheduled # <<>>
    /\ events' = EmitFileChanged(events, Head(scheduled).file_path, Head(scheduled).timestamp)
    /\ scheduled' = Tail(scheduled)
    /\ UNCHANGED <<active_reviews, created, comments, submitted, pending_comments,
                   pending_comment_counts, review_approved, event_loop,
                   comment_event, enqueuing, ready,
                   pc, delivered, lastOp, persisted, saving, now, last_event_times, observer,
                   watch_handles, is_watching, last_notified, diffVars, hubVars>>

\* the frame of a FileWatcher call
WatcherCallFrame ==
    UNCHANGED <<active_reviews, created, comments, submitted, pending_comments,
                pending_comment_counts, review_approved, event_loop,
                comment_event, enqueuing, ready, events,
                pc, delivered, persisted, saving, now, scheduled, diffVars, hubVars>>

\* start_watching that schedules a handler whether or not it is watching
start_watching_unguarded(directory, established) ==
    /\ event_loop
    /\ Len(last_event_times) < MaxFileEvents
    /\ observer' = TRUE
    /\ IF established
       THEN /\ last_event_times' = Append(last_event_times, EmptyTimes)
            /\ watch_handles' = watch_handles \cup {directory}
            /\ is_watching' = TRUE
       ELSE UNCHANGED <<last_event_times, watch_handles, is_watching>>
    /\ lastOp' = Op("start_watching", 0, 0, "returned", "none")
    /\ UNCHANGED last_notified
    /\ WatcherCallFrame

\* start_watching that sets the flag before it schedules the handler
start_watching_flags_first(directory, established) ==
    /\ event_loop
    /\ IF is_watching
       THEN UNCHANGED <<observer, last_event_times, watch_handles, is_watching>>
       ELSE /\ observer' = TRUE
            /\ is_watching' = TRUE
            /\ IF established
               THEN /\ last_event_times' = Append(last_event_times, EmptyTimes)
                    /\ watch_handles' = watch_handles \cup {directory}
               ELSE UNCHANGED <<last_event_times, watch_handles>>
    /\ lastOp' = Op("start_watching", 0, 0, "returned", "none")
    /\ UNCHANGED last_notified
    /\ WatcherCallFrame

\* FileWatcher.start_watching; established: observer.schedule returns a handle
\* (otherwise it raises and the warning is printed)
start_watching(directory, established) ==
    /\ event_loop
    /\ IF is_watching
       THEN UNCHANGED <<observer, last_event_times, watch_handles, is_watching>>
       ELSE /\ observer' = TRUE
            /\ IF established
               THEN /\ last_event_times' = Append(last_event_times, EmptyTimes)
                    /\ watch_handles' = watch_handles \cup {directory}
                    /\ is_watching' = TRUE
               ELSE UNCHANGED <<last_event_times, watch_handles, is_watching>>
    /\ lastOp' = Op("start_watching", 0, 0, "returned", "none")
    /\ UNCHANGED last_notified
    /\ WatcherCallFrame

\* FileWatcher.stop: the observer is stopped and dropped with its handlers
stop ==
    /\ event_loop
    /\ observer' = FALSE
    /\ last_event_times' = <<>>
    /\ watch_handles' = {}
    /\ is_watching' = FALSE
    /\ last_notified' = EmptyTimes
    /\ lastOp' = Op("stop", 0, 0, "returned", "none")
    /\ WatcherCallFrame

\* a quarter of a second passes
tick ==
    /\ now < StartTime + MaxTicks
    /\ now' = now + 1
    /\ UNCHANGED <<last_event_times, scheduled, observer, watch_handles, is_watching,
                   last_notified>>
    /\ ManagerFrame
    /\ UNCHANGED <<diffVars, hubVars>>

\* the watcher on its own: the observer's thread, the loop and the clock
WatchNext ==
    \/ \E p \in Paths, d \in BOOLEAN : notification(p, d)
    \/ run_file_changed
    \/ \E dir \in Dirs, established \in BOOLEAN : start_watching(dir, established)
    \/ stop
    \/ tick

WatchSpecInit ==
    /\ ManagerInit
    /\ event_loop
    /\ DiffIdle
    /\ HubInit
    /\ (WatchStarted \/ WatchFailed)

WatchSpec == WatchSpecInit /\ [][WatchNext]_vars

\* one handler from its scheduling on: notifications, the loop and the clock
BurstNext ==
    \/ \E p \in Paths, d \in BOOLEAN : notification(p, d)
    \/ run_file_changed
    \/ tick

BurstInit ==
    /\ ManagerInit
    /\ event_loop
    /\ DiffIdle
    /\ HubInit
    /\ WatchStarted

BurstSpec == BurstInit /\ [][BurstNext]_vars

\* a manager whose watch could not be established when it was built: the
\* reviewer's requests and the agent's await_comments, with the watch on the
\* working directory retried and one file changing
DegradedNext ==
    \/ \E commit \in BOOLEAN, range \in BOOLEAN, since \in BOOLEAN :
          create_review_session(commit, range, since)
    \/ \E r \in ReviewIds : create_review_comment(r)
    \/ run_enqueue
    \/ \E r \in ReviewIds, valid \in BOOLEAN : approve_review(r, valid)
    \/ await_comments_call
    \/ await_comments_check
    \/ await_comments_get
    \/ await_comments_timeout
    \/ \E established \in BOOLEAN : start_watching("cwd", established)
    \/ \E d \in BOOLEAN : on_modified("x", d) /\ UNCHANGED last_notified
    \/ run_file_changed

DegradedInit ==
    /\ ManagerInit
    /\ event_loop
    /\ DiffIdle
    /\ HubInit
    /\ WatchFailed

DegradedSpec == DegradedInit /\ [][DegradedNext]_vars

\* the three contexts that publish: request handlers, the agent's
\* await_comments on the loop, and the watcher's thread
EventNext ==
    \/ \E commit \in BOOLEAN, range \in BOOLEAN, since \in BOOLEAN :
          create_review_session(commit, range, since)
    \/ \E r \in ReviewIds : create_review_comment(r)
    \/ run_enqueue
    \/ \E r \in ReviewIds, valid \in BOOLEAN : approve_review(r, valid)
    \/ await_comments_call
    \/ await_comments_check
    \/ await_comments_get
    \/ await_comments_timeout
    \/ \E p \in Paths, d \in BOOLEAN : on_modified(p, d) /\ UNCHANGED last_notified
    \/ run_file_changed

EventInit == Init /\ event_loop

EventSpec == EventInit /\ [][EventNext]_vars

\* -------------------------------------------------------- comment store
\* the frame of a CommentService call made directly by one of the contexts
StoreCallFrame ==
    UNCHANGED <<active_reviews, created, pending_comments, pending_comment_counts,
                review_approved, event_loop,
                comment_event, enqueuing, ready, events, pc, delivered, lastOp,
                diffVars, hubVars, watchVars>>

\* a context is inside _save_comments, called by op for comment c, with the data
\* it built from _comments
Saving(ctx, op, r, c, store) ==
    [saving EXCEPT ![ctx] = <<[op |-> op, review |-> r, comment |-> c, data |-> store]>>]

\* the add_comment call that creates comment c has not returned
BeingAdded(c) ==
    \E ctx \in Contexts :
        /\ saving[ctx] # <<>>
        /\ saving[ctx][1].op = "add"
        /\ saving[ctx][1].comment = c

\* CommentService.add_comment: the comment is put in _comments and
\* _save_comments builds its data; the file is not written yet
add_comment(ctx, r) ==
    /\ saving[ctx] = <<>>
    /\ r \in active_reviews
    /\ Len(submitted) < MaxComments
    /\ comments' = [comments EXCEPT ![r] = DictSet(@, Len(submitted) + 1, QUEUED)]
    /\ submitted' = Append(submitted, r)
    /\ saving' = Saving(ctx, "add", r, Len(submitted) + 1, comments'[r])
    /\ UNCHANGED persisted
    /\ StoreCallFrame

\* CommentService.delete_comment, up to the data _save_comments builds
delete_comment(ctx, r, c) ==
    /\ saving[ctx] = <<>>
    /\ r \in active_reviews
    /\ c \in DOMAIN comments[r]
    /\ ~BeingAdded(c)
    /\ comments' = [comments EXCEPT ![r] = DictDel(@, c)]
    /\ saving' = Saving(ctx, "delete", r, c, comments'[r])
    /\ UNCHANGED <<submitted, persisted>>
    /\ StoreCallFrame

\* CommentService.update_comment_status on a comment its caller was handed, up
\* to the data _save_comments builds
update_comment_status(ctx, r, c, status) ==
    /\ saving[ctx] = <<>>
    /\ r \in active_reviews
    /\ c \in DOMAIN comments[r]
    /\ ~BeingAdded(c)
    /\ comments[r][c] # status
    /\ comments' = [comments EXCEPT ![r] = UpdateCommentStatus(@, c, status)]
    /\ saving' = Saving(ctx, "update_status", r, c, comments'[r])
    /\ UNCHANGED <<submitted, persisted>>
    /\ StoreCallFrame

\* _save_comments writes its data to the file and the call returns
save_comments_write(ctx) ==
    /\ saving[ctx] # <<>>
    /\ persisted' = _save_comments(persisted, saving[ctx][1].review, saving[ctx][1].data)
    /\ saving' = [saving EXCEPT ![ctx] = <<>>]
    /\ UNCHANGED <<comments, submitted>>
    /\ StoreCallFrame

\* one session's CommentService used from both contexts: the request handlers
\* add and delete, await_comments and resolve_comment set the status
PersistNext ==
    \/ \E commit \in BOOLEAN, range \in BOOLEAN, since \in BOOLEAN :
          create_review_session(commit, range, since)
    \/ \E r \in ReviewIds : add_comment("request", r)
    \/ \E r \in ReviewIds, c \in CommentIds : delete_comment("request", r, c)
    \/ \E r \in ReviewIds, c \in CommentIds :
          update_comment_status("consumer", r, c, IN_PROGRESS)
    \/ \E r \in ReviewIds, c \in CommentIds :
          update_comment_status("consumer", r, c, RESOLVED)
    \/ \E ctx \in Contexts : save_comments_write(ctx)

PersistSpec == Init /\ [][PersistNext]_vars

\* ------------------------------------- enqueue() on the request thread
\* A manager built without a loop whose web server runs in its own thread
\* (start_web_server): add_comment_to_queue calls enqueue() on the request
\* thread while await_comments runs on the agent's loop.

\* POST comments up to enqueue()'s read of the review's count
create_review_comment_reads(r) ==
    /\ ~event_loop
    /\ enqueuing = <<>>
    /\ r \in active_reviews
    /\ Len(submitted) < MaxComments
    /\ LET c == Len(submitted) + 1
       IN /\ comments' = [comments EXCEPT ![r] = DictSet(@, c, QUEUED)]
          /\ persisted' = _save_comments(persisted, r, comments'[r])
          /\ submitted' = Append(submitted, r)
          /\ enqueuing' = <<[review |-> r, comment |-> c, step |-> "read",
                              current |-> CountGet(pending_comment_counts, r),
                              queue_position |-> QueuePosition(comments'[r])]>>
    /\ UNCHANGED <<active_reviews, created, pending_comments, pending_comment_counts,
                   review_approved, event_loop, comment_event, ready, events, pc, delivered, lastOp,
                   saving, diffVars, hubVars, watchVars>>

\* enqueue(): self._pending_comment_counts[review_id] = current + 1
enqueue_writes_count ==
    /\ enqueuing # <<>>
    /\ enqueuing[1].step = "read"
    /\ pending_comment_counts' =
          DictSet(pending_comment_counts, enqueuing[1].review, enqueuing[1].current + 1)
    /\ enqueuing' = <<[enqueuing[1] EXCEPT !.step = "counted"]>>
    /\ UNCHANGED <<active_reviews, created, comments, submitted, pending_comments,
                   review_approved, event_loop, comment_event, ready, events, pc, delivered, lastOp,
                   persisted, saving, diffVars, hubVars, watchVars>>

\* enqueue(): put_nowait, and the request returns
enqueue_puts ==
    /\ enqueuing # <<>>
    /\ enqueuing[1].step = "counted"
    /\ pending_comments' =
          QueuePut(pending_comments, <<enqueuing[1].review, enqueuing[1].comment>>)
    /\ enqueuing' = <<>>
    /\ lastOp' = [Op("submit", enqueuing[1].review, enqueuing[1].comment, "ok", "none") EXCEPT
                    !.queue_position = enqueuing[1].queue_position]
    /\ UNCHANGED <<active_reviews, created, comments, submitted, pending_comment_counts,
                   review_approved, event_loop, comment_event, ready, events, pc, delivered,
                   persisted, saving, diffVars, hubVars, watchVars>>

ThreadNext ==
    \/ \E commit \in BOOLEAN, range \in BOOLEAN, since \in BOOLEAN :
          create_review_session(commit, range, since)
    \/ \E r \in ReviewIds : create_review_comment_reads(r)
    \/ enqueue_writes_count
    \/ enqueue_puts
    \/ \E r \in ReviewIds, valid \in BOOLEAN : approve_review(r, valid)
    \/ await_comments_call
    \/ await_comments_check
    \/ await_comments_get
    \/ await_comments_timeout

ThreadInit == Init /\ ~event_loop

ThreadSpec == ThreadInit /\ [][ThreadNext]_vars

\* ------------------------------------------------ the batch coordinator
\* reviewer.ReviewManager: _pending_comments is a list of comments and
\* _comment_event an asyncio.Event; await_comments returns the whole list.
\* Here pending_comments holds comment ids, submitted the ids passed to
\* add_comment and delivered the ids returned, in the order of their return.

MaxBatchComments == 6

\* the timeout argument of await_comments: None, 0 or a number of seconds
BatchTimeouts == {None, 0, 30}

\* add_comment: append to the list and set the event
add_comment_batch ==
    /\ Len(submitted) < MaxBatchComments
    /\ LET c == Len(submitted) + 1
       IN /\ pending_comments' = Append(pending_comments, c)
          /\ submitted' = Append(submitted, c)
          /\ lastOp' = Op("add_comment", 0, c, "none", "none")
    /\ comment_event' = TRUE
    /\ UNCHANGED <<active_reviews, created, comments, pending_comment_counts,
                   review_approved, event_loop, enqueuing, ready, events, pc, delivered,
                   persisted, saving, diffVars, hubVars, watchVars>>

\* await_comments up to its await: the event is cleared, then the call waits
\* on it, under wait_for when the timeout is truthy
await_comments_batch_call(timeout) ==
    /\ pc = "idle"
    /\ comment_event' = FALSE
    /\ pc' = IF timeout # None /\ timeout # 0 THEN "wait_for" ELSE "wait"
    /\ lastOp' = Op("await_call", 0, 0, "none", "none")
    /\ UNCHANGED <<active_reviews, created, comments, submitted, pending_comments,
                   pending_comment_counts, review_approved, event_loop, enqueuing, ready,
                   events, delivered, persisted, saving, diffVars, hubVars, watchVars>>

\* await_comments after the event was set: the list is copied, cleared and
\* the copy returned
await_comments_batch_return ==
    /\ pc \in {"wait", "wait_for"}
    /\ comment_event
    /\ pc' = "idle"
    /\ delivered' = delivered \o pending_comments
    /\ pending_comments' = <<>>
    /\ lastOp' = Op("await", 0, 0, "comments", "none")
    /\ UNCHANGED <<active_reviews, created, comments, submitted, pending_comment_counts,
                   review_approved, event_loop, comment_event, enqueuing, ready, events,
                   persisted, saving, diffVars, hubVars, watchVars>>

\* await_comments when wait_for raises asyncio.TimeoutError: return []
await_comments_batch_timeout ==
    /\ pc = "wait_for"
    /\ pc' = "idle"
    /\ lastOp' = Op("await", 0, 0, "empty", "none")
    /\ UNCHANGED <<active_reviews, created, comments, submitted, pending_comments,
                   pending_comment_counts, review_approved, event_loop, comment_event,
                   enqueuing, ready, events, delivered, persisted, saving,
                   diffVars, hubVars, watchVars>>

BatchNext ==
    \/ add_comment_batch
    \/ \E timeout \in BatchTimeouts : await_comments_batch_call(timeout)
    \/ await_comments_batch_return
    \/ await_comments_batch_timeout

BatchInit == Init /\ ~event_loop

BatchSpec == BatchInit /\ [][BatchNext]_vars

\* ------------------------------------------------------ claim vocabulary
Delivered == Range(delivered)

NoDuplicates(s) == \A i, j \in 1..Len(s) : s[i] = s[j] => i = j

\* comment ids are handed out in submission order: the k-th submission is k
InSubmissionOrder(s) == \A i \in 1..Len(s) : s[i] = i

InQueue(c) == \E i \in 1..Len(pending_comments) : pending_comments[i][2] = c

\* comments whose submission to r completed before some approve(r) call
SubmittedBeforeApprove(r) ==
    {c \in SubmittedTo(r) :
        \E i \in 1..Len(events) :
            /\ events[i].type = "review_approved"
            /\ events[i].review = r
            /\ c <= events[i].data}

Approved(r) == r \in Range(review_approved)

Drained(r) == SubmittedTo(r) \subseteq Delivered

AwaitReturned(kind) == lastOp.op = "await" /\ lastOp.result = kind

\* ---------------------------------------------------------------- claims
\* C1: with no review approved, await_comments returns the comments in exactly
\* the order they were submitted, across all reviews.
C1_GlobalFifo ==
    review_approved = <<>> =>
        /\ Len(delivered) <= Len(submitted)
        /\ InSubmissionOrder(delivered)

C1_Witness ==
    /\ review_approved = <<>>
    /\ Len(delivered) = 2
    /\ submitted[delivered[1]] # submitted[delivered[2]]

\* C2: under fairness every comment that was enqueued is eventually returned
\* by some await_comments call.
C2_EveryEnqueuedReturned ==
    \A c \in CommentIds : InQueue(c) ~> (c \in Delivered)

\* C3: no comment is returned twice, every returned comment was submitted, and
\* the returned comments are a prefix of the submitted ones.
C3_ReturnedIsPrefix ==
    /\ NoDuplicates(delivered)
    /\ Delivered \subseteq 1..Len(submitted)
    /\ Delivered = 1..Len(delivered)

C3_Witness ==
    /\ Len(delivered) = 2
    /\ review_approved # <<>>
    /\ pending_comments = <<>>

\* C4: await_comments never returns ReviewApproved(R) while a comment submitted
\* to R before approve(R) was called has not been returned.
C4_NoShortCircuit ==
    AwaitReturned("approved") => SubmittedBeforeApprove(lastOp.review) \subseteq Delivered

\* C5: once R is approved and all its comments were returned, the await_comments
\* check that ends the call returns ReviewApproved for R.
C5_ApprovedIsR ==
    [][\A r \in ReviewIds :
          (pc = "check" /\ pc' # "check" /\ Approved(r) /\ Drained(r)) =>
              (lastOp'.op = "await" /\ lastOp'.result = "approved" /\ lastOp'.review = r)]_vars

\* C6: a comment returned by await_comments is InProgress in its review's store
\* at the return and was Queued until this call changed it.
C6_FreshlyInProgress ==
    AwaitReturned("comment") =>
        /\ lastOp.prev = QUEUED
        /\ lastOp.review \in active_reviews
        /\ lastOp.comment \in DOMAIN comments[lastOp.review]
        /\ comments[lastOp.review][lastOp.comment] = IN_PROGRESS

\* C7: a comment is created Queued and its status only ever goes
\* Queued -> InProgress -> Resolved.
C7_LegalTransitions ==
    [][\A r \in ReviewIds, c \in CommentIds :
          /\ (c \notin DOMAIN comments[r] /\ c \in DOMAIN comments'[r]) =>
                comments'[r][c] = QUEUED
          /\ (c \in DOMAIN comments[r] /\ c \in DOMAIN comments'[r]
                /\ comments'[r][c] # comments[r][c]) =>
                <<comments[r][c], comments'[r][c]>> \in
                    {<<QUEUED, IN_PROGRESS>>, <<IN_PROGRESS, RESOLVED>>}]_vars

\* C8: await_comments returns only with a comment or ReviewApproved; while the
\* queue is empty and no approved review has zero pending comments the call
\* stays blocked.
C8_NoTimeoutReturn ==
    [][/\ (pc # "idle" /\ pc' = "idle") =>
              (lastOp'.op = "await" /\ lastOp'.result \in {"comment", "approved"})
       /\ (pc \in {"check", "wait"} /\ pending_comments = <<>> /\ ApprovedDone = <<>>) =>
              pc' \in {"check", "wait"}]_vars

C8_Witness ==
    /\ lastOp.op = "await_timeout"
    /\ pc = "check"
    /\ submitted # <<>>
    /\ review_approved # <<>>

\* C9: a repeated approve(R) leaves the approval flags, the queue, the pending
\* counts and everything await_comments reads as the first one left them.
C9_ApproveIdempotent ==
    [][(lastOp'.op = "approve" /\ lastOp'.result = "ok" /\ Approved(lastOp'.review)) =>
          UNCHANGED <<review_approved, pending_comments, pending_comment_counts,
                      ready, comments, active_reviews, delivered, pc>>]_vars

C9_Witness ==
    /\ lastOp.op = "approve"
    /\ lastOp.result = "ok"
    /\ Cardinality({i \in 1..Len(events) :
            events[i].type = "review_approved" /\ events[i].review = lastOp.review}) = 2
    /\ pending_comments # <<>>

\* C10: submitting to, or approving, an unregistered review id fails with
\* NotFound and changes nothing.
C10_NotFoundNoEffect ==
    [][\A r \in ReviewIds :
          (/\ r \notin active_reviews
           /\ \/ create_review_comment(r)
              \/ approve_review(r, TRUE)
              \/ approve_review(r, FALSE)) =>
              /\ lastOp'.result = "NotFound"
              /\ UNCHANGED <<active_reviews, created, comments, submitted,
                             pending_comments, pending_comment_counts,
                             review_approved, event_loop, ready, events, pc,
                             delivered>>]_vars

C10_Witness ==
    /\ lastOp.op = "approve"
    /\ lastOp.result = "NotFound"
    /\ Cardinality(active_reviews) < created
    /\ pending_comments # <<>>
\* ------------------------------------------------- claims: review sessions
SelectorCount(commit, range, since) ==
    Cardinality({x \in {<<1, commit>>, <<2, range>>, <<3, since>>} : x[2]})

Parsed == parse_result # <<>>

ParsedFiles == parse_result[1]

\* no header line of the text fails its pattern
WellFormedText ==
    \A i \in 1..Len(diff_output) :
        diff_output[i].first \in {"diff --git", "@@"} => diff_output[i].match

\* lines of the given types in one chunk
TypeCount(chunk, types) ==
    Cardinality({j \in 1..Len(chunk.lines) : chunk.lines[j].type \in types})

\* lines of the given types in all chunks of a file
FileTypeCount(f, types) ==
    LET upto[k \in 0..Len(f.chunks)] ==
            IF k = 0 THEN 0 ELSE upto[k - 1] + TypeCount(f.chunks[k], types)
    IN upto[Len(f.chunks)]

\* the file section line i of the text lies in: the file headers up to it
SectionOf(i) ==
    Cardinality({j \in 1..i : diff_output[j].first = "diff --git"})

\* lines of section k of the text that git wrote with the given role
RoleCount(k, role) ==
    Cardinality({i \in 1..Len(diff_output) :
                    SectionOf(i) = k /\ diff_output[i].role = role})

\* C12: each parsed file's additions / deletions equal the Addition / Deletion
\* lines in that file's chunks.
C12_CountsMatchChunks ==
    Parsed =>
        \A k \in 1..Len(ParsedFiles) :
            /\ ParsedFiles[k].additions = FileTypeCount(ParsedFiles[k], {ADDITION})
            /\ ParsedFiles[k].deletions = FileTypeCount(ParsedFiles[k], {DELETION})

\* C13: in every chunk of every parsed file, Context + Deletion lines equal the
\* declared old count and Context + Addition lines the declared new count.
C13_DeclaredCounts ==
    (Parsed /\ WellFormedText) =>
        \A k \in 1..Len(ParsedFiles) :
            \A c \in 1..Len(ParsedFiles[k].chunks) :
                LET chunk == ParsedFiles[k].chunks[c]
                IN /\ TypeCount(chunk, {CONTEXT, DELETION}) = chunk.old_lines
                   /\ TypeCount(chunk, {CONTEXT, ADDITION}) = chunk.new_lines

\* C14: every chunk is in the file whose section held its header, holds only
\* lines of that section, and a file counts only its own section's lines.
C14_ChunksStayInSection ==
    (Parsed /\ WellFormedText) =>
        \A k \in 1..Len(ParsedFiles) :
            /\ ParsedFiles[k].additions = RoleCount(k, ADDITION)
            /\ ParsedFiles[k].deletions = RoleCount(k, DELETION)
            /\ \A c \in 1..Len(ParsedFiles[k].chunks) :
                  LET chunk == ParsedFiles[k].chunks[c]
                  IN /\ SectionOf(chunk.at) = k
                     /\ \A j \in 1..Len(chunk.lines) :
                           SectionOf(chunk.lines[j].content) = k

\* C15: in every parsed chunk the i-th Context-or-Deletion line has old number
\* old_start + i - 1 and the j-th Context-or-Addition line new number
\* new_start + j - 1; Additions have no old number, Deletions no new number.
C15_RunningCounters ==
    Parsed =>
        \A k \in 1..Len(ParsedFiles) :
            \A c \in 1..Len(ParsedFiles[k].chunks) :
                LET chunk == ParsedFiles[k].chunks[c]
                    OldBefore(j) == Cardinality({m \in 1..j :
                                        chunk.lines[m].type \in {CONTEXT, DELETION}})
                    NewBefore(j) == Cardinality({m \in 1..j :
                                        chunk.lines[m].type \in {CONTEXT, ADDITION}})
                IN \A j \in 1..Len(chunk.lines) :
                      /\ chunk.lines[j].old_num =
                            IF chunk.lines[j].type = ADDITION THEN None
                            ELSE chunk.old_start + OldBefore(j) - 1
                      /\ chunk.lines[j].new_num =
                            IF chunk.lines[j].type = DELETION THEN None
                            ELSE chunk.new_start + NewBefore(j) - 1

\* a chunk at -1 +1,2 holding an addition (new 1) and then a context line
\* (old 1, new 2)
C15_Witness ==
    /\ Parsed
    /\ \E k \in 1..Len(ParsedFiles) :
          /\ Len(ParsedFiles[k].chunks) = 1
          /\ LET chunk == ParsedFiles[k].chunks[1]
             IN /\ chunk.old_start = 1
                /\ chunk.old_lines = 1
                /\ chunk.new_start = 1
                /\ chunk.new_lines = 2
                /\ Len(chunk.lines) = 2
                /\ chunk.lines[1].type = ADDITION
                /\ chunk.lines[1].new_num = 1
                /\ chunk.lines[2].type = CONTEXT
                /\ chunk.lines[2].old_num = 1
                /\ chunk.lines[2].new_num = 2
\* ------------------------------------------------------- claims: diff merge
Merged == merge_result # <<>>

MergeResult == merge_result[1]

\* the records of both inputs with path p, main's first
InputsOf(p) ==
    SelectSeq(main_files, LAMBDA f : f.path = p) \o
        SelectSeq(additional_files, LAMBDA f : f.path = p)

RECURSIVE ChunksOf(_)
ChunksOf(files) == IF files = <<>> THEN <<>> ELSE Head(files).chunks \o ChunksOf(Tail(files))

RECURSIVE SumOf(_, _)
SumOf(files, field) ==
    IF files = <<>> THEN 0 ELSE Head(files)[field] + SumOf(Tail(files), field)

\* C16: the result is the main files in their order, a main file whose path is
\* also in additional replaced in place by one record holding main's chunks
\* and then additional's, followed by the additional files of new paths in
\* their order; a path in both inputs occurs once.
C16_MergeOrder ==
    Merged =>
        /\ Len(MergeResult) >= Len(main_files)
        /\ \A i \in 1..Len(main_files) :
              IF main_files[i].path \in PathsOf(additional_files)
              THEN /\ MergeResult[i].path = main_files[i].path
                   /\ MergeResult[i].chunks =
                         main_files[i].chunks \o
                         ChunksOf(SelectSeq(additional_files,
                                            LAMBDA f : f.path = main_files[i].path))
              ELSE MergeResult[i] = main_files[i]
        /\ SubSeq(MergeResult, Len(main_files) + 1, Len(MergeResult)) =
              SelectSeq(additional_files, LAMBDA f : f.path \notin PathsOf(main_files))
        /\ \A p \in PathsOf(main_files) \cap PathsOf(additional_files) :
              Cardinality({i \in 1..Len(MergeResult) : MergeResult[i].path = p}) = 1

\* C17: for every path of the result, additions and deletions are the sums
\* over all input records of that path, is_binary and is_renamed their OR,
\* old_path main's value when main has one, and no chunk of an additional
\* record is dropped.
C17_MergeSums ==
    Merged =>
        \A i \in 1..Len(MergeResult) :
            LET p == MergeResult[i].path
                inputs == InputsOf(p)
                all == SelectSeq(MergeResult, LAMBDA f : f.path = p)
            IN /\ SumOf(all, "additions") = SumOf(inputs, "additions")
               /\ SumOf(all, "deletions") = SumOf(inputs, "deletions")
               /\ MergeResult[i].is_binary =>
                     \E k \in 1..Len(inputs) : inputs[k].is_binary
               /\ (\E k \in 1..Len(inputs) : inputs[k].is_binary) =>
                     \E k \in 1..Len(all) : all[k].is_binary
               /\ (\E k \in 1..Len(inputs) : inputs[k].is_renamed) =>
                     \E k \in 1..Len(all) : all[k].is_renamed
               /\ \A k \in 1..Len(main_files) :
                     (main_files[k].path = p /\ main_files[k].old_path # NoPath) =>
                         \E m \in 1..Len(all) : all[m].old_path = main_files[k].old_path
               /\ \A k \in 1..Len(additional_files) :
                     additional_files[k].path = p =>
                         \A c \in 1..Len(additional_files[k].chunks) :
                             \E m \in 1..Len(all) :
                                 additional_files[k].chunks[c] \in Range(all[m].chunks)
\* -------------------------------------------------------- claims: event log
\* where handler h's subscriber started: the id it gave, or the tail of the log
\* when it subscribed
StartCursor(h) ==
    IF handlers[h].last_event_id = None THEN handlers[h].subscribed_at
    ELSE handlers[h].last_event_id

\* ids of the log's events after id n
IdsAfter(log, n) == IdsOf(SelectSeq(log, LAMBDA e : e.id > n))

\* C18: the first wait of a subscriber created with last_event_id = N returns
\* exactly the events with id > N, in id order; the first wait of a subscriber
\* created without one returns exactly the events published after it subscribed.
C18_CursorCorrect ==
    [][\A h \in 1..Len(handlers') :
          (handlers'[h].first # <<>> /\ (h > Len(handlers) \/ handlers[h].first = <<>>)) =>
              handlers'[h].first[1] =
                  IdsAfter(events, IF handlers'[h].last_event_id = None
                                   THEN handlers'[h].subscribed_at
                                   ELSE handlers'[h].last_event_id)]_vars

C18_Witness ==
    \E h1, h2 \in 1..Len(handlers) :
        /\ handlers[h1].last_event_id = 1
        /\ handlers[h1].subscribed_at = 2
        /\ handlers[h1].first = <<(<<2>>)>>
        /\ handlers[h2].last_event_id = None
        /\ handlers[h2].subscribed_at = 1
        /\ handlers[h2].first = <<(<<2>>)>>

\* every subscriber that has waited received the events from its start to its
\* cursor, each once, in id order
ReceivedExactlyOnce ==
    \A h \in 1..Len(handlers) :
        handlers[h].first # <<>> =>
            /\ \A i \in 1..Len(handlers[h].received) :
                  handlers[h].received[i] = StartCursor(h) + i
            /\ h \in DOMAIN subscribers =>
                  (handlers[h].received # <<>> =>
                      subscribers[h] = StartCursor(h) + Len(handlers[h].received))

\* C19: a wait changes no other subscriber's cursor and not the log, and a
\* subscriber that keeps waiting receives every event after its start exactly
\* once, in id order.
C19_WaitIsLocal ==
    [][/\ \A h \in 1..MaxHandlers :
             (get_events_wait(h) \/ websocket_wait(h)) =>
                 /\ events' = events
                 /\ \A s \in (DOMAIN subscribers) \ {h} :
                       s \in DOMAIN subscribers' /\ subscribers'[s] = subscribers[s]
       /\ ReceivedExactlyOnce']_vars

C19_Witness ==
    /\ Len(handlers) = 2
    /\ handlers[1].kind = "ws" /\ handlers[1].state = "subscribed"
    /\ handlers[2].kind = "ws" /\ handlers[2].state = "subscribed"
    /\ handlers[1].received = <<1, 2>>
    /\ handlers[2].received = <<>>
    /\ subscribers[1] = 2
    /\ subscribers[2] = 1

StrictlyIncreasingIds(log) == \A i \in 1..Len(log), j \in 1..Len(log) : i < j => log[i].id < log[j].id

InFlight == {h \in 1..Len(handlers) : handlers[h].state = "subscribed"}

\* C21: the registered subscribers are exactly those of the handlers in flight:
\* a handler that ended, by return, timeout, disconnect or send failure, has
\* unsubscribed, so there are never more subscribers than handlers in flight.
C21_NoSubscriberLeak ==
    /\ DOMAIN subscribers = InFlight
    /\ Cardinality(DOMAIN subscribers) <= Cardinality(InFlight)

\* a long-poll that timed out empty, and a websocket ended by a failed send
C21_Witness ==
    /\ Len(handlers) = 2
    /\ \E h \in 1..2 :
          handlers[h].kind = "poll" /\ handlers[h].state = "done" /\ handlers[h].received = <<>>
    /\ \E h \in 1..2 : handlers[h].kind = "ws" /\ handlers[h].state = "failed"
    /\ subscribers = [s \in {} |-> 0]
\* ------------------------------------------------------ claims: file watcher
\* FileChanged events in the log for a path with a timestamp
FileChangedAt(file_path, timestamp) ==
    \E i \in 1..Len(events) :
        /\ events[i].type = "file_changed"
        /\ events[i].file_path = file_path
        /\ events[i].data = timestamp

\* C22: of two successive notifications for a path less than the debounce
\* window apart exactly one yields a FileChanged event; the first notification
\* for a path, and one at least a window after the one before it, yields one.
C22_Debounce ==
    [][\A p \in Paths :
          notification(p, FALSE) =>
              IF p \notin DOMAIN last_notified
              THEN last_notified'[p].emitted = 1
              ELSE IF last_notified'[p].time - last_notified[p].time < DebounceTicks
                   THEN last_notified[p].emitted + last_notified'[p].emitted = 1
                   ELSE last_notified'[p].emitted = 1]_vars

\* C22, amended: of two successive notifications for a path less than the
\* debounce window apart at most one yields a FileChanged event; the first
\* notification for a path, and one at least a window after the one before it,
\* yields exactly one.
C22_DebounceAtMostOne ==
    [][\A p \in Paths :
          notification(p, FALSE) =>
              IF p \notin DOMAIN last_notified
              THEN last_notified'[p].emitted = 1
              ELSE IF last_notified'[p].time - last_notified[p].time < DebounceTicks
                   THEN last_notified[p].emitted + last_notified'[p].emitted <= 1
                   ELSE last_notified'[p].emitted = 1]_vars

\* x was notified at StartTime and a window later, one event each, and then
\* once more inside the second window, without an event
C22_Witness ==
    /\ "x" \in DOMAIN last_notified
    /\ last_notified["x"] = [time |-> StartTime + DebounceTicks + 1, emitted |-> 0]
    /\ FileChangedAt("x", StartTime)
    /\ FileChangedAt("x", StartTime + DebounceTicks)
    /\ CountType(events, "file_changed") = 2
    /\ scheduled = <<>>

\* C23: start_watching on a running watcher changes nothing, so there is never
\* more than one handler or watch and a modification sets off at most one
\* FileChanged event; on a stopped watcher it watches again.
C23_StartIdempotent ==
    [][/\ \A dir \in Dirs, established \in BOOLEAN :
             (is_watching /\ start_watching(dir, established)) =>
                 UNCHANGED <<observer, last_event_times, watch_handles, is_watching,
                             scheduled, events>>
       /\ \A p \in Paths :
             notification(p, FALSE) => Len(scheduled') <= Len(scheduled) + 1
       /\ \A dir \in Dirs :
             (~is_watching /\ start_watching(dir, TRUE)) =>
                 /\ is_watching'
                 /\ Len(last_event_times') = 1
                 /\ watch_handles' = {dir}
       /\ Len(last_event_times') <= 1
       /\ Cardinality(watch_handles') <= 1]_vars

\* x changed and was published, the watcher was stopped and started on lib, x
\* changed again, and start_watching was called once more
C23_Witness ==
    /\ lastOp.op = "start_watching"
    /\ is_watching
    /\ watch_handles = {"lib"}
    /\ Len(last_event_times) = 1
    /\ FileChangedAt("x", StartTime)
    /\ scheduled = <<[file_path |-> "x", timestamp |-> StartTime + 1]>>

\* the reviewer's and the agent's operations can go ahead
ManagerWorks ==
    /\ \A r \in active_reviews :
          /\ Len(submitted) < MaxComments => ENABLED create_review_comment(r)
          /\ CountType(events, "review_approved") < MaxApproveCalls =>
                ENABLED approve_review(r, TRUE)
    /\ pc = "idle" => ENABLED await_comments_call
    /\ pc = "check" => ENABLED await_comments_check
    /\ (pc = "wait" /\ pending_comments # <<>>) => ENABLED await_comments_get
    /\ ready # <<>> => ENABLED run_enqueue

Quiescent == \A ctx \in Contexts : saving[ctx] = <<>>

\* C25: once the mutations issued from the two contexts have returned, the
\* persisted comment set of every session equals its in-memory set.
C25_WriteThrough ==
    Quiescent => \A r \in ReviewIds : persisted[r] = comments[r]

\* the comments of review r in line for await_comments: the enqueue callbacks
\* not yet run and the entries of the queue
LineAhead(r) ==
    Cardinality({i \in 1..Len(ready) : ready[i][1] = r})
        + Cardinality({i \in 1..Len(pending_comments) : pending_comments[i][1] = r})

\* C26: the queue_position a submission to R returns is the number of Queued
\* comments of R, the new one included, and queue_position - 1 comments of R
\* are in line before it.
C26_QueuePosition ==
    [][(Len(submitted') = Len(submitted) + 1 /\ lastOp'.op = "submit") =>
          /\ lastOp'.queue_position =
                Cardinality({c \in DOMAIN comments'[lastOp'.review] :
                                comments'[lastOp'.review][c] = QUEUED})
          /\ lastOp'.queue_position - 1 = LineAhead(lastOp'.review)]_vars

\* C27: the await_comments tool answers with the comment's details whenever
\* the coordinator delivered a comment and with REVIEW APPROVED whenever it
\* returned ReviewApproved; UNKNOWN RESULT is never its answer.
C27_ToolAnswer ==
    /\ AwaitReturned("comment") => lastOp.tool = "comment details"
    /\ AwaitReturned("approved") => lastOp.tool = "REVIEW APPROVED"
    /\ lastOp.tool # "UNKNOWN RESULT"

\* how many of commit and range a request gives
GivenCount(commit, range) == (IF Truthy(commit) THEN 1 ELSE 0) + (IF Truthy(range) THEN 1 ELSE 0)

\* C28: GET /api/diff without mock fails with 400 when neither or both of
\* commit and range are given, building no session and computing no diff;
\* with exactly one of them, or with mock, it returns a diff.
C28_GetDiff ==
    [][\A commit \in QueryValues, range \in QueryValues, mock \in BOOLEAN :
          get_diff(commit, range, mock) =>
              IF ~mock /\ GivenCount(commit, range) # 1
              THEN lastOp'.result = "400" /\ lastOp'.calls = <<>>
              ELSE lastOp'.result = "diff"]_vars

\* C29: await_comments returns ReviewApproved(R) only for a review whose flag
\* is set and whose pending count is zero at the check; when such a review
\* exists at a check the call returns at once, and the check removes nothing
\* from the queue and changes no pending count and no comment status.
C29_ApprovedOnlyWhenDrained ==
    [][(pc = "check" /\ pc' # "check") =>
          /\ (lastOp'.op = "await" /\ lastOp'.result = "approved") =>
                /\ lastOp'.review \in Range(review_approved)
                /\ CountGet(pending_comment_counts, lastOp'.review) = 0
          /\ (\E r \in Range(review_approved) : CountGet(pending_comment_counts, r) = 0) =>
                /\ pc' = "idle"
                /\ lastOp'.op = "await" /\ lastOp'.result = "approved"
          /\ UNCHANGED <<pending_comments, ready, pending_comment_counts, comments>>]_vars

\* ReviewApproved was returned for a drained review while another review's
\* comment waits in the queue with its count
C29_Witness ==
    /\ AwaitReturned("approved")
    /\ CountGet(pending_comment_counts, lastOp.review) = 0
    /\ \E i \in 1..Len(pending_comments) :
          /\ pending_comments[i][1] # lastOp.review
          /\ CountGet(pending_comment_counts, pending_comments[i][1]) > 0
    /\ delivered # <<>>

\* C30: each dequeue in await_comments publishes exactly one CommentDequeued
\* event for the comment's review, with the count decremented and the status
\* changed, and the remaining count it carries is the number of comments still
\* waiting in the queue after this one was removed; a ReviewApproved return
\* publishes no event.
C30_DequeuedEvent ==
    [][/\ Len(delivered') = Len(delivered) + 1 =>
             /\ Len(events') = Len(events) + 1
             /\ LET e == events'[Len(events')]
                IN  /\ e.type = "comment_dequeued"
                    /\ e.review = lastOp'.review
                    /\ e.comment = lastOp'.comment
                    /\ CountGet(pending_comment_counts', e.review)
                          = CountGet(pending_comment_counts, e.review) - 1
                    /\ e.data = Len(pending_comments')
       /\ (pc = "check" /\ lastOp'.op = "await" /\ lastOp'.result = "approved") =>
             events' = events]_vars

\* C31: the streaming connection opened for review R delivers only events of
\* review R, so events published for other reviews never change what R's
\* connection receives.
C31_OnlyOwnEvents ==
    \A h \in 1..Len(handlers) :
        handlers[h].kind = "ws" =>
            \A i \in 1..Len(handlers[h].received) :
                events[handlers[h].received[i]].review = handlers[h].review

\* C32: resolve_comment(id) sets the comment to Resolved in the one active
\* review that holds it and publishes exactly one CommentResolved event for
\* that review, leaving every other comment, the queue, the pending counts and
\* the approval flags as they were; when no active review holds the id it
\* changes nothing, publishes nothing and reports not found.
C32_ResolveFrame ==
    [][\A c \in CommentIds :
          resolve_comment(c) =>
              LET holders == {r \in active_reviews : c \in DOMAIN comments[r]}
              IN  /\ UNCHANGED <<pending_comments, ready, pending_comment_counts,
                                 review_approved, active_reviews>>
                  /\ IF holders = {}
                     THEN /\ UNCHANGED <<comments, events>>
                          /\ lastOp'.result = "not_found"
                     ELSE /\ Cardinality(holders) = 1
                          /\ lastOp'.result = "resolved"
                          /\ \A r \in holders :
                                /\ comments'[r][c] = RESOLVED
                                /\ Len(events') = Len(events) + 1
                                /\ events'[Len(events')].type = "comment_resolved"
                                /\ events'[Len(events')].review = r
                                /\ events'[Len(events')].comment = c
                          /\ \A r \in ReviewIds :
                                /\ DOMAIN comments'[r] = DOMAIN comments[r]
                                /\ \A c2 \in DOMAIN comments[r] :
                                      (c2 # c \/ r \notin holders) =>
                                          comments'[r][c2] = comments[r][c2]]_vars

\* a comment in progress was resolved while another one waits in the queue of
\* an approved review
C32_Witness ==
    /\ lastOp.op = "resolve"
    /\ lastOp.result = "resolved"
    /\ lastOp.prev = IN_PROGRESS
    /\ pending_comments # <<>>
    /\ review_approved # <<>>
    /\ events[Len(events)].type = "comment_resolved"

\* the file sections of the text
SectionCount == Cardinality({i \in 1..Len(diff_output) : diff_output[i].first = "diff --git"})

\* section k of the text has no chunk header
NoChunkHeader(k) ==
    \A i \in 1..Len(diff_output) : SectionOf(i) = k => diff_output[i].first # "@@"

\* C33: a file section with no chunk header (pure rename or binary) is in the
\* parse result with an empty chunk list, whatever sections and chunks come
\* before or after it; empty diff text yields an empty result.
C33_NoChunkSection ==
    (Parsed /\ WellFormedText) =>
        /\ Len(ParsedFiles) = SectionCount
        /\ \A k \in 1..Len(ParsedFiles) : NoChunkHeader(k) => ParsedFiles[k].chunks = <<>>
        /\ diff_output = <<>> => ParsedFiles = <<>>

\* the header lines of the text that do not match their pattern
BadHeaders ==
    {i \in 1..Len(diff_output) :
        diff_output[i].first \in {"diff --git", "@@"} /\ ~diff_output[i].match}

\* the chunks of the result, as <<file, chunk>> positions
ChunkPositions ==
    UNION {{<<k, c>> : c \in 1..Len(ParsedFiles[k].chunks)} : k \in 1..Len(ParsedFiles)}

\* C34: with a header line that does not match its pattern, parsing still ends
\* with a result, no file and no chunk is in the result more than once, and
\* the lines after the malformed header are not added to a chunk that was
\* opened before it.
C34_MalformedSkipped ==
    (Parsed /\ BadHeaders # {}) =>
        /\ Len(ParsedFiles) <=
              Cardinality({i \in 1..Len(diff_output) :
                              diff_output[i].first = "diff --git" /\ diff_output[i].match})
        /\ \A p, q \in ChunkPositions :
              ParsedFiles[p[1]].chunks[p[2]].at = ParsedFiles[q[1]].chunks[q[2]].at => p = q
        /\ \A b \in BadHeaders : \A p \in ChunkPositions :
              LET chunk == ParsedFiles[p[1]].chunks[p[2]]
              IN  chunk.at < b => \A j \in 1..Len(chunk.lines) : chunk.lines[j].content < b

\* the entries of review r in the queue
QueueEntries(r) == Cardinality({i \in 1..Len(pending_comments) : pending_comments[i][1] = r})

\* C35: in every state the pending count of each review is the number of that
\* review's entries in the queue; a review with no entry has no count, and no
\* count is zero or negative.
C35_CountsMatchQueue ==
    \A r \in ReviewIds :
        /\ CountGet(pending_comment_counts, r) = QueueEntries(r)
        /\ r \in DOMAIN pending_comment_counts => pending_comment_counts[r] > 0

\* C36: deleting a comment changes only its review's store, not the queue and
\* not the pending counts: an entry leaves the queue only by being returned,
\* head first, also when its comment was deleted, and ReviewApproved is not
\* returned for a review that still has an entry in the queue.
C36_DeleteLeavesQueue ==
    [][/\ lastOp'.op = "delete" =>
             /\ UNCHANGED <<pending_comments, ready, pending_comment_counts,
                            review_approved, active_reviews, events>>
             /\ IF lastOp'.result = "ok"
                THEN /\ lastOp'.comment \in DOMAIN comments[lastOp'.review]
                     /\ comments' = [comments EXCEPT
                                        ![lastOp'.review] = DictDel(@, lastOp'.comment)]
                ELSE comments' = comments
       /\ \A c \in CommentIds :
             (InQueue(c) /\ ~InQueue(c)') =>
                 /\ Head(pending_comments)[2] = c
                 /\ delivered' = Append(delivered, c)
                 /\ lastOp'.op = "await" /\ lastOp'.result = "comment" /\ lastOp'.comment = c
       /\ (pc = "check" /\ pc' = "idle" /\ lastOp'.result = "approved") =>
             QueueEntries(lastOp'.review) = 0]_vars

\* a comment deleted while Queued was returned by await_comments, for a review
\* already approved
C36_Witness ==
    /\ AwaitReturned("comment")
    /\ lastOp.prev = "absent"
    /\ lastOp.review \in active_reviews
    /\ Approved(lastOp.review)
    /\ Len(delivered) = 2

\* C37: remove_review_session(R) changes only the set of active reviews, and
\* nothing when R is absent; R's queue entries, count and approval flag stay,
\* and every dequeue returns the head of the queue whether or not its review
\* is still active.
C37_RemoveLeavesQueue ==
    [][/\ \A r \in ReviewIds :
             remove_review_session(r) =>
                 /\ UNCHANGED <<pending_comments, ready, pending_comment_counts,
                                review_approved, comments, events, delivered>>
                 /\ IF r \in active_reviews
                    THEN active_reviews' = active_reviews \ {r} /\ lastOp'.result = "true"
                    ELSE active_reviews' = active_reviews /\ lastOp'.result = "false"
       /\ Len(delivered') = Len(delivered) + 1 =>
             /\ pending_comments # <<>>
             /\ delivered'[Len(delivered')] = Head(pending_comments)[2]
             /\ pending_comments' = Tail(pending_comments)
             /\ pending_comment_counts' =
                   DecrementCount(pending_comment_counts, Head(pending_comments)[1])]_vars

\* ReviewApproved was returned for a removed review, after the comment queued
\* before the removal was returned (its status was left Queued)
C37_Witness ==
    /\ AwaitReturned("approved")
    /\ lastOp.review \notin active_reviews
    /\ \E c \in SubmittedTo(lastOp.review) :
          /\ c \in Delivered
          /\ c \in DOMAIN comments[lastOp.review]
          /\ comments[lastOp.review][c] = QUEUED

\* the FileChanged events for a path, published or handed to the loop
EmittedTimes(file_path) ==
    {events[i].data : i \in {j \in 1..Len(events) :
                                events[j].type = "file_changed"
                                    /\ events[j].file_path = file_path}}
        \cup {scheduled[i].timestamp : i \in {j \in 1..Len(scheduled) :
                                                 scheduled[j].file_path = file_path}}

\* the time of the newest of them
LastEmitted(file_path) ==
    IF EmittedTimes(file_path) = {} THEN 0
    ELSE CHOOSE t \in EmittedTimes(file_path) : \A u \in EmittedTimes(file_path) : u <= t

\* C38: a notification for a path yields a FileChanged event exactly when the
\* last FileChanged event of that path is at least a debounce window old,
\* whatever was notified and suppressed since and whatever happened to other
\* paths; a notification for a directory yields nothing.
C38_WindowFromLastEvent ==
    [][\A p \in Paths :
          /\ notification(p, FALSE) =>
                IF now - LastEmitted(p) >= DebounceTicks
                THEN scheduled' = Append(scheduled, [file_path |-> p, timestamp |-> now])
                ELSE scheduled' = scheduled
          /\ notification(p, TRUE) => UNCHANGED <<scheduled, events, last_event_times>>]_vars

\* inside the window of x's event a notification for x was suppressed while
\* one for y was published
C38_Witness ==
    /\ now = StartTime + 1
    /\ FileChangedAt("x", StartTime)
    /\ FileChangedAt("y", StartTime + 1)
    /\ "x" \in DOMAIN last_notified
    /\ last_notified["x"] = [time |-> StartTime + 1, emitted |-> 0]

\* C39: batch coordinator. Every comment passed to add_comment is returned by
\* at most one await_comments call, and only comments that were passed are
\* returned; a call that waits while comments are pending has the event set,
\* so that it returns them without a further add_comment; a call that returns
\* for its timeout returns the empty list and leaves the pending comments.
C39_BatchDelivery ==
    [][/\ NoDuplicates(delivered')
       /\ \A i \in 1..Len(delivered') : \E j \in 1..Len(submitted') : submitted'[j] = delivered'[i]
       /\ (pc' \in {"wait", "wait_for"} /\ pending_comments' # <<>>) => comment_event'
       /\ (pc = "wait_for" /\ pc' = "idle" /\ ~comment_event) =>
             /\ lastOp'.result = "empty"
             /\ delivered' = delivered
             /\ pending_comments' = pending_comments]_vars

====
